---- MODULE Spec2Model ----
(***************************************************************************)
(* Response submission and answer validation of the form backend:          *)
(*   backend/src/services/responseService.js  (submitResponse,             *)
(*                                              validateAnswerValue)       *)
(*   backend/src/models/responseModel.js      (createWithAnswers)          *)
(*   database schema                          (responses, answers tables)  *)
(*                                                                         *)
(* Two specifications share the module:                                    *)
(*   SpecV  - validateAnswerValue as a pure function, applied to every     *)
(*            question / raw value of a bounded universe;                  *)
(*   Spec   - submitResponse calls against the store, one step per await   *)
(*            of the code (the validation loop is synchronous JavaScript   *)
(*            and therefore one step).                                     *)
(***************************************************************************)
EXTENDS Integers, Sequences, FiniteSets, TLC

VARIABLES
    forms,      \* forms table: form id -> [status, user_id]
    questions,  \* questions table: set of question rows
    responses,  \* responses table: committed rows
    answers,    \* answers table: committed rows
    nextId,     \* the next response id the store generates
    procs,      \* the request handlers that run
    call,       \* per handler: position and locals of its submitResponse call
    val,        \* SpecV: the question, the raw value and the two results
    agg,        \* SpecA: the questions, the submissions and the statistics
    detail      \* SpecJ: one answer value, as stored, read and returned

vars == <<forms, questions, responses, answers, nextId, procs, call, val, agg, detail>>

(***************************************************************************)
(* Bounds of the model.                                                    *)
(***************************************************************************)
\* longest raw string of SpecV
MaxStrLen == 3
\* longest raw array of SpecV
MaxArrLen == 2
\* longest string inside a raw array of SpecV
MaxElemLen == 1
\* longest answers array handed to submitResponse
MaxAnswers == 2
\* number of responses the store holds before submissions stop
MaxResponses == 2

(***************************************************************************)
(* JavaScript values.  A string is the sequence of its characters, so that *)
(* trim() and === are computed and not assumed.                            *)
(***************************************************************************)
Chars == {" ", "a", "A"}

\* the strings the submissions of Spec use
Yes == <<"Y", "e", "s">>
No == <<"N", "o">>
yes == <<"y", "e", "s">>
Blanks == <<" ", " ">>

IsSpace(c) == c = " "

RECURSIVE StringsOfLen(_)
StringsOfLen(n) ==
    IF n = 0 THEN {<<>>}
    ELSE {Append(s, c) : s \in StringsOfLen(n - 1), c \in Chars}

StringsUpTo(n) == UNION {StringsOfLen(k) : k \in 0..n}

Undef == [t |-> "undefined", s |-> <<>>, a |-> <<>>]
Null == [t |-> "null", s |-> <<>>, a |-> <<>>]
\* a value that is neither a string nor an array (a number, say)
Num == [t |-> "number", s |-> <<>>, a |-> <<>>]
Str(s) == [t |-> "string", s |-> s, a |-> <<>>]
\* an array; its elements are strings or numbers
Arr(a) == [t |-> "array", s |-> <<>>, a |-> a]

ElemStr(s) == [t |-> "string", s |-> s]
ElemNum == [t |-> "number", s |-> <<>>]

\* String.prototype.trim
RECURSIVE TrimStart(_)
TrimStart(s) ==
    IF s = <<>> THEN s
    ELSE IF IsSpace(Head(s)) THEN TrimStart(Tail(s)) ELSE s

RECURSIVE TrimEnd(_)
TrimEnd(s) ==
    IF s = <<>> THEN s
    ELSE IF IsSpace(s[Len(s)]) THEN TrimEnd(SubSeq(s, 1, Len(s) - 1)) ELSE s

Trim(s) == TrimEnd(TrimStart(s))

(***************************************************************************)
(* Question options: the JSONB column is NULL or an array of strings.      *)
(***************************************************************************)
NullOptions == [isNull |-> TRUE, items |-> <<>>]
Options(items) == [isNull |-> FALSE, items |-> items]
\* options || []
OptionsOrEmpty(options) == IF options.isNull THEN <<>> ELSE options.items

Lower(c) ==
    CASE c = "A" -> "a" [] c = "Y" -> "y" [] c = "N" -> "n"
      [] c = "C" -> "c" [] c = "M" -> "m"
      [] OTHER -> c
LowerCase(s) == [i \in 1..Len(s) |-> Lower(s[i])]

\* variant: options compared without regard to case
IncludesIgnoreCase(items, s) ==
    \E i \in 1..Len(items) : LowerCase(items[i]) = LowerCase(s)

\* Array.prototype.includes on strings: exact comparison
IncludesExact(items, s) ==
    \E i \in 1..Len(items) : items[i] = s

\* !options || !options.includes(v)
NotAnOption(options, s) ==
    options.isNull \/ ~IncludesExact(options.items, s)

\* variant: every element counts, equal ones too
SetSizeLength(a) == Len(a)

\* new Set(value).size for an array of strings
SetSize(a) == Cardinality({a[i].s : i \in 1..Len(a)})

\* maximum length of a short answer: 5000 in the source, scaled down so that
\* the over-long case lies within MaxStrLen
MaxShortAnswerLength == 2

Invalid(message) == [valid |-> FALSE, message |-> message, normalizedValue |-> Undef]
Valid(v) == [valid |-> TRUE, message |-> "", normalizedValue |-> v]

\* value === undefined || value === null || value === ''
IsBlank(value) ==
    \/ value.t = "undefined"
    \/ value.t = "null"
    \/ (value.t = "string" /\ value.s = <<>>)

\* index of the first element of a checkbox array that fails the loop, 0 if none
FirstBadElem(options, a) ==
    LET bad == {i \in 1..Len(a) :
                  a[i].t # "string" \/ NotAnOption(options, a[i].s)}
    IN IF bad = {} THEN 0 ELSE CHOOSE i \in bad : \A j \in bad : i <= j

\* variant: the empty value of every type is the empty string
EmptyNormalizedScalar(type) == Str(<<>>)

\* type === 'checkbox' ? [] : ''
EmptyNormalized(type) == IF type = "checkbox" THEN Arr(<<>>) ELSE Str(<<>>)

validateAnswerValue(question, value) ==
    IF question.is_required /\ IsBlank(value) THEN Invalid("required")
    ELSE IF ~question.is_required /\ IsBlank(value)
    THEN Valid(EmptyNormalized(question.type))
    ELSE CASE question.type = "short_answer" ->
                IF value.t # "string" THEN Invalid("not_string")
                ELSE IF Len(value.s) > MaxShortAnswerLength THEN Invalid("too_long")
                ELSE Valid(Str(Trim(value.s)))
           [] question.type \in {"multiple_choice", "dropdown"} ->
                IF value.t # "string" THEN Invalid("not_string")
                ELSE IF NotAnOption(question.options, value.s)
                     THEN Invalid("invalid_option")
                ELSE Valid(value)
           [] question.type = "checkbox" ->
                IF value.t # "array" THEN Invalid("not_array")
                ELSE LET b == FirstBadElem(question.options, value.a)
                     IN IF b # 0
                        THEN (IF value.a[b].t # "string"
                              THEN Invalid("element_not_string")
                              ELSE Invalid("invalid_option"))
                        ELSE IF SetSize(value.a) # Len(value.a)
                             THEN Invalid("duplicate_selection")
                        ELSE Valid(value)
           [] OTHER -> Invalid("unknown_type")

(***************************************************************************)
(* SpecV: validateAnswerValue applied to a question and a raw value, then  *)
(* applied again to the normalized value it returned.                      *)
(***************************************************************************)
QuestionTypes == {"short_answer", "multiple_choice", "checkbox", "dropdown"}
ChoiceTypes == {"multiple_choice", "checkbox", "dropdown"}

Question(id, form, type, options, required, order) ==
    [id |-> id, form_id |-> form, title |-> <<"title", id>>, type |-> type,
     options |-> options, is_required |-> required, order_index |-> order]

VOptions ==
    {NullOptions,
     Options(<< <<"a">> >>),
     Options(<< <<"a">>, <<"A">> >>),
     Options(<< <<"A">>, <<"a", "a">> >>)}

VQuestions ==
    {Question("q1", "f1", t, o, r, 0) :
        t \in QuestionTypes \cup {"paragraph"}, o \in VOptions, r \in BOOLEAN}

VElems == {ElemStr(s) : s \in StringsUpTo(MaxElemLen)} \cup {ElemNum}

RECURSIVE ArraysOfLen(_)
ArraysOfLen(n) ==
    IF n = 0 THEN {<<>>}
    ELSE {Append(a, e) : a \in ArraysOfLen(n - 1), e \in VElems}

VValues ==
    {Undef, Null, Num}
    \cup {Str(s) : s \in StringsUpTo(MaxStrLen)}
    \cup {Arr(a) : a \in UNION {ArraysOfLen(k) : k \in 0..MaxArrLen}}

NoResult == [valid |-> FALSE, message |-> "none", normalizedValue |-> Undef]

ValIdle == [pc |-> "off", question |-> Question("q1", "f1", "short_answer", NullOptions, FALSE, 0),
            value |-> Undef, r1 |-> NoResult, r2 |-> NoResult]

VValidate ==
    /\ val.pc = "start"
    /\ val' = [val EXCEPT !.pc = "validated",
                          !.r1 = validateAnswerValue(val.question, val.value)]
    /\ UNCHANGED <<forms, questions, responses, answers, nextId, procs, call, agg, detail>>

VRevalidate ==
    /\ val.pc = "validated"
    /\ val.r1.valid
    /\ val' = [val EXCEPT !.pc = "revalidated",
                          !.r2 = validateAnswerValue(val.question, val.r1.normalizedValue)]
    /\ UNCHANGED <<forms, questions, responses, answers, nextId, procs, call, agg, detail>>

(***************************************************************************)
(* Spec: the store and the submitResponse calls.                           *)
(***************************************************************************)
AllProcs == {1, 2}

Statuses == {"draft", "published", "closed"}

\* the users: u1 owns f1, u2 owns the other forms
Users == {"u1", "u2"}
FormOwner(f) == IF f = "f1" THEN "u1" ELSE "u2"

\* f0 names no form; f3 is a published form without questions
FormIds == {"f0", "f1", "f3"}

YesNo == Options(<<Yes, No>>)

SchemaA ==
    {Question("q1", "f1", "multiple_choice", YesNo, TRUE, 0),
     Question("q2", "f1", "short_answer", NullOptions, FALSE, 1),
     Question("q3", "f2", "dropdown", YesNo, FALSE, 0)}

SchemaB ==
    {Question("q1", "f1", "checkbox", YesNo, TRUE, 1),
     Question("q2", "f1", "dropdown", YesNo, FALSE, 0),
     Question("q3", "f2", "short_answer", NullOptions, TRUE, 0)}

SchemaC ==
    {Question("q1", "f1", "short_answer", NullOptions, TRUE, 0),
     Question("q2", "f1", "checkbox", YesNo, FALSE, 1),
     Question("q3", "f2", "multiple_choice", YesNo, TRUE, 0)}

Schemas == {SchemaA, SchemaB, SchemaC}

\* a falsy question_id (undefined, null, '')
NoQuestionId == ""

RawAnswer(qid, value) == [question_id |-> qid, value |-> value]

\* the raw answers of Spec: blank, option, wrong-case option, whitespace,
\* empty and one-element selections for the two questions of f1; one answer
\* to a question of another form; one answer without question_id
RawAnswersSet ==
    {RawAnswer("q1", v) : v \in {Str(Yes), Str(Blanks), Arr(<<>>),
                                  Arr(<<ElemStr(Yes)>>)}}
    \cup {RawAnswer("q2", v) : v \in {Undef, Str(Yes), Str(yes),
                                       Arr(<<ElemStr(Yes)>>)}}
    \cup {RawAnswer("q3", Str(Yes)), RawAnswer(NoQuestionId, Str(Yes))}

RECURSIVE AnswerArraysOfLen(_)
AnswerArraysOfLen(n) ==
    IF n = 0 THEN {<<>>}
    ELSE {Append(a, e) : a \in AnswerArraysOfLen(n - 1), e \in RawAnswersSet}

AnswerArrays == UNION {AnswerArraysOfLen(k) : k \in 0..MaxAnswers}

\* SELECT ... FROM questions WHERE form_id = $1 ORDER BY order_index ASC
RECURSIVE SortByOrderIndex(_)
SortByOrderIndex(qs) ==
    IF qs = {} THEN <<>>
    ELSE LET first == CHOOSE q \in qs : \A r \in qs : q.order_index <= r.order_index
         IN <<first>> \o SortByOrderIndex(qs \ {first})

\* variant: the questions of every form
findByFormIdAny(formId) == SortByOrderIndex(questions)

findByFormId(formId) ==
    SortByOrderIndex({q \in questions : q.form_id = formId})

\* questionMap.get(id): the question with that id, if any
HasQuestion(qs, id) == \E i \in 1..Len(qs) : qs[i].id = id
GetQuestion(qs, id) == qs[CHOOSE i \in 1..Len(qs) : qs[i].id = id]

\* the entries of validationErrors; a property the code does not set is "-"
Absent == "-"
\* variant: the message names no question
IndexErrorUnnamed(i, message, mention) ==
    [index |-> i, field |-> "question_id", question_id |-> Absent,
     question_title |-> <<Absent>>, message |-> message, mentions |-> <<Absent>>]
IndexError(i, message, mention) ==
    [index |-> i, field |-> "question_id", question_id |-> Absent,
     question_title |-> <<Absent>>, message |-> message, mentions |-> mention]
ValueError(i, q, message) ==
    [index |-> i, field |-> "value", question_id |-> q.id,
     question_title |-> q.title, message |-> message, mentions |-> q.title]
RequiredError(q) ==
    [index |-> -1, field |-> "required", question_id |-> q.id,
     question_title |-> q.title, message |-> "required_unanswered", mentions |-> q.title]

\* variant: a repeated question_id is not noticed
IsDuplicateNever(answered, qid) == FALSE

\* answeredQuestionIds.has(answer.question_id)
IsDuplicate(answered, qid) == qid \in answered

\* the loop over answers (lines 52-107); i is the 1-based position, the entries
\* carry the 0-based index of the code
RECURSIVE ValidateAnswers(_, _, _, _)
ValidateAnswers(qs, rawAnswers, i, acc) ==
    IF i > Len(rawAnswers) THEN acc
    ELSE LET answer == rawAnswers[i]
             qid == answer.question_id
         IN IF qid = NoQuestionId
            THEN ValidateAnswers(qs, rawAnswers, i + 1,
                    [acc EXCEPT !.errors =
                        Append(@, IndexError(i - 1, "question_id_required", <<Absent>>))])
            ELSE IF ~HasQuestion(qs, qid)
            THEN ValidateAnswers(qs, rawAnswers, i + 1,
                    [acc EXCEPT !.errors =
                        Append(@, IndexError(i - 1, "not_in_form", <<qid>>))])
            ELSE IF IsDuplicate(acc.answered, qid)
            THEN ValidateAnswers(qs, rawAnswers, i + 1,
                    [acc EXCEPT !.errors =
                        Append(@, IndexError(i - 1, "duplicate_answer",
                                             GetQuestion(qs, qid).title))])
            ELSE LET question == GetQuestion(qs, qid)
                     v == validateAnswerValue(question, answer.value)
                 IN IF ~v.valid
                    THEN ValidateAnswers(qs, rawAnswers, i + 1,
                            [acc EXCEPT !.answered = @ \cup {qid},
                                        !.errors = Append(@, ValueError(i - 1, question, v.message))])
                    ELSE ValidateAnswers(qs, rawAnswers, i + 1,
                            [acc EXCEPT !.answered = @ \cup {qid},
                                        !.validated = Append(@,
                                            [question_id |-> qid, value |-> v.normalizedValue])])

\* variant: required questions are not checked
RequiredErrorsNone(qs, answered, i) == <<>>

\* the loop over questions (lines 110-119)
RECURSIVE RequiredErrors(_, _, _)
RequiredErrors(qs, answered, i) ==
    IF i > Len(qs) THEN <<>>
    ELSE (IF qs[i].is_required /\ qs[i].id \notin answered
          THEN <<RequiredError(qs[i])>> ELSE <<>>)
         \o RequiredErrors(qs, answered, i + 1)

\* variant: required questions are checked only when every answer passed
ValidateSubmissionFirstOnly(qs, rawAnswers) ==
    LET r == ValidateAnswers(qs, rawAnswers, 1,
                [errors |-> <<>>, validated |-> <<>>, answered |-> {}])
    IN [errors |-> IF Len(r.errors) > 0 THEN r.errors
                   ELSE RequiredErrors(qs, r.answered, 1),
        validated |-> r.validated,
        answered |-> r.answered]

\* steps 3 and 4 of submitResponse: validationErrors and validatedAnswers
ValidateSubmission(qs, rawAnswers) ==
    LET r == ValidateAnswers(qs, rawAnswers, 1,
                [errors |-> <<>>, validated |-> <<>>, answered |-> {}])
    IN [errors |-> r.errors \o RequiredErrors(qs, r.answered, 1),
        validated |-> r.validated,
        answered |-> r.answered]

\* the updates argument of updateQuestion; a property that is undefined is
\* not given (for type: "-")
NotGiven(v) == [given |-> FALSE, v |-> v]
Given(v) == [given |-> TRUE, v |-> v]
Updates(type, options, title, required) ==
    [type |-> type, options |-> options, title |-> title, is_required |-> required]
NoUpdates == Updates("-", NotGiven(<<>>), NotGiven(<<>>), NotGiven(FALSE))

\* the result of a query that found no row, or the row it found
NoRows == {}

IdleCall ==
    [pc |-> "idle", formId |-> "-", status |-> "-", qs |-> <<>>, args |-> <<>>,
     errors |-> <<>>, validated |-> <<>>, idx |-> 0, rid |-> 0,
     txResponses |-> {}, txAnswers |-> {}, client |-> "none",
     failedAt |-> "none", rolledBack |-> "no", outcome |-> "none",
     \* history of the call, read by the properties only
     qread |-> FALSE, inspected |-> 0, invoked |-> FALSE, writes |-> 0,
     releases |-> 0,
     \* the operation, and the arguments and locals of the question
     \* service calls and of deleteResponse
     op |-> "none", userId |-> "-", questionId |-> "-", responseId |-> 0,
     updates |-> NoUpdates, orderings |-> <<>>, existing |-> NoRows,
     found |-> NoRows,
     hasSubmissions |-> FALSE, allowedUpdates |-> NoUpdates,
     txOrder |-> <<>>,
     \* the status argument of updateForm
     newStatus |-> "-"]

store == <<forms, questions, responses, answers, nextId>>

InFlight == {p \in procs : call[p].pc # "idle"}

\* submitResponse is entered (line 25)
SubmitCall(p, formId) ==
    /\ call[p].pc = "idle"
    /\ nextId + Cardinality(InFlight) <= MaxResponses
    /\ call' = [call EXCEPT ![p] = [IdleCall EXCEPT !.pc = "findForm", !.formId = formId,
                                                !.op = "submitResponse"]]
    /\ UNCHANGED <<store, procs, val, agg, detail>>

\* variant: only draft forms are closed to responses
AcceptsResponsesUnlessDraft(status) == status # "draft"

\* form.status !== 'published' throws forbidden (line 33)
AcceptsResponses(status) == status = "published"

\* formModel.findById and the checks on its result (lines 27-35)
SubmitFindForm(p) ==
    /\ call[p].pc = "findForm"
    /\ call' = [call EXCEPT ![p] =
            IF call[p].formId \notin DOMAIN forms
            THEN [@ EXCEPT !.pc = "done", !.outcome = "not_found"]
            ELSE IF ~AcceptsResponses(forms[call[p].formId].status)
            THEN [@ EXCEPT !.pc = "done", !.outcome = "forbidden",
                           !.status = forms[call[p].formId].status]
            ELSE [@ EXCEPT !.pc = "findQuestions",
                           !.status = forms[call[p].formId].status]]
    /\ UNCHANGED <<store, procs, val, agg, detail>>

\* variant: a single error is let through
HasValidationErrorsMany(errors) == Len(errors) > 1

\* if (validationErrors.length > 0) throw (lines 122-124)
HasValidationErrors(errors) == Len(errors) > 0

\* variant: a form without required questions is taken for an empty one
NoQuestionsRequired(qs) == \A i \in 1..Len(qs) : ~qs[i].is_required

\* questions.length === 0 throws badRequest (lines 40-42)
NoQuestions(qs) == Len(qs) = 0

\* questionModel.findByFormId and everything up to the call of
\* createWithAnswers (lines 38-127); rawAnswers is the answers argument
SubmitValidate(p, rawAnswers) ==
    /\ call[p].pc = "findQuestions"
    /\ LET qs == findByFormId(call[p].formId)
           r == ValidateSubmission(qs, rawAnswers)
       IN call' = [call EXCEPT ![p] =
            IF NoQuestions(qs)
            THEN [@ EXCEPT !.pc = "done", !.outcome = "no_questions", !.qread = TRUE,
                           !.args = rawAnswers]
            ELSE IF HasValidationErrors(r.errors)
            THEN [@ EXCEPT !.pc = "done", !.outcome = "validation_failed",
                           !.qread = TRUE, !.qs = qs, !.args = rawAnswers,
                           !.inspected = Len(rawAnswers),
                           !.errors = r.errors, !.validated = r.validated]
            ELSE [@ EXCEPT !.pc = "getClient", !.invoked = TRUE,
                           !.qread = TRUE, !.qs = qs, !.args = rawAnswers,
                           !.inspected = Len(rawAnswers),
                           !.errors = r.errors, !.validated = r.validated]]
    /\ UNCHANGED <<store, procs, val, agg, detail>>

(***************************************************************************)
(* createWithAnswers (responseModel.js lines 19-69).  The rows a           *)
(* transaction inserted are pending in the call until COMMIT adds them to  *)
(* the tables; ROLLBACK, or the end of a transaction that failed, drops    *)
(* them.  ok = FALSE is a store fault of the statement.                    *)
(***************************************************************************)
ResponseRow(id, formId) == [id |-> id, form_id |-> formId]
\* the generated id of an answer row is any fresh value; the pair is fresh
\* because the unique index admits it once
AnswerRow(rid, a) ==
    [id |-> <<rid, a.question_id>>, response_id |-> rid,
     question_id |-> a.question_id, value |-> a.value]

\* idx_answers_response_question: UNIQUE (response_id, question_id)
UniqueViolation(rows, row) ==
    \E r \in rows : r.response_id = row.response_id /\ r.question_id = row.question_id

\* answers.question_id REFERENCES questions(id)
QuestionExists(qid) == \E q \in questions : q.id = qid

\* the tables after COMMIT and after ROLLBACK of a transaction with these
\* pending rows
CommitRows(committed, pending) == committed \cup pending
\* variant: the inserts are not undone
RollbackRowsKept(committed, pending) == committed \cup pending
RollbackRows(committed, pending) == committed

\* db.getClient() (line 20); a failure is thrown before the try block
GetClient(p, ok) ==
    /\ call[p].pc = "getClient"
    /\ call' = [call EXCEPT ![p] =
            IF ok THEN [@ EXCEPT !.pc = "begin", !.client = "held"]
            ELSE [@ EXCEPT !.pc = "done", !.failedAt = "connect",
                           !.outcome = "persistence_error"]]
    /\ UNCHANGED <<store, procs, val, agg, detail>>

\* client.query('BEGIN') (line 23)
Begin(p, ok) ==
    /\ call[p].pc = "begin"
    /\ call' = [call EXCEPT ![p] =
            IF ok THEN [@ EXCEPT !.pc = "insertResponse"]
            ELSE [@ EXCEPT !.pc = "rollback", !.failedAt = "begin"]]
    /\ UNCHANGED <<store, procs, val, agg, detail>>

\* variant: the id that was generated last is generated again
FreshIdRepeated(id) == id

\* responses.id DEFAULT uuid_generate_v4(): the id after this one is new
FreshId(id) == id + 1

\* INSERT INTO responses (lines 26-33)
InsertResponse(p, ok) ==
    /\ call[p].pc = "insertResponse"
    /\ IF ok /\ call[p].formId \in DOMAIN forms
       THEN /\ call' = [call EXCEPT ![p] =
                    [@ EXCEPT !.pc = IF Len(call[p].validated) = 0
                                     THEN "commit" ELSE "insertAnswer",
                              !.idx = 1, !.rid = nextId,
                              !.txResponses = {ResponseRow(nextId, call[p].formId)},
                              !.writes = @ + 1]]
            /\ nextId' = FreshId(nextId)
       ELSE /\ call' = [call EXCEPT ![p] =
                    [@ EXCEPT !.pc = "rollback", !.failedAt = "response"]]
            /\ UNCHANGED nextId
    /\ UNCHANGED <<forms, questions, responses, answers, procs, val, agg, detail>>

\* INSERT INTO answers, one statement per iteration (lines 38-55)
InsertAnswer(p, ok) ==
    /\ call[p].pc = "insertAnswer"
    /\ LET row == AnswerRow(call[p].rid, call[p].validated[call[p].idx])
       IN call' = [call EXCEPT ![p] =
            IF /\ ok
               /\ ~UniqueViolation(answers \cup call[p].txAnswers, row)
               /\ QuestionExists(row.question_id)
            THEN [@ EXCEPT !.pc = IF call[p].idx = Len(call[p].validated)
                                  THEN "commit" ELSE "insertAnswer",
                           !.idx = @ + 1,
                           !.txAnswers = @ \cup {row},
                           !.writes = @ + 1]
            ELSE [@ EXCEPT !.pc = "rollback", !.failedAt = "answer"]]
    /\ UNCHANGED <<store, procs, val, agg, detail>>

\* client.query('COMMIT') (line 57)
Commit(p, ok) ==
    /\ call[p].pc = "commit"
    /\ IF ok
       THEN /\ responses' = CommitRows(responses, call[p].txResponses)
            /\ answers' = CommitRows(answers, call[p].txAnswers)
            /\ call' = [call EXCEPT ![p] =
                    [@ EXCEPT !.pc = "release", !.txResponses = {}, !.txAnswers = {}]]
       ELSE /\ call' = [call EXCEPT ![p] =
                    [@ EXCEPT !.pc = "rollback", !.failedAt = "commit"]]
            /\ UNCHANGED <<responses, answers>>
    /\ UNCHANGED <<forms, questions, nextId, procs, val, agg, detail>>

\* variant: an error thrown by ROLLBACK leaves the function at once
AfterRollbackThrows(ok) == IF ok THEN "release" ELSE "done"

\* the finally block runs after the catch block, also when ROLLBACK threw
\* (lines 63-68)
AfterRollback(ok) == "release"

\* catch: client.query('ROLLBACK'); throw (lines 63-65).  When ROLLBACK itself
\* fails its error is the one thrown; the transaction did not commit
Rollback(p, ok) ==
    /\ call[p].pc = "rollback"
    /\ responses' = RollbackRows(responses, call[p].txResponses)
    /\ answers' = RollbackRows(answers, call[p].txAnswers)
    /\ call' = [call EXCEPT ![p] =
            [@ EXCEPT !.pc = AfterRollback(ok), !.txResponses = {}, !.txAnswers = {},
                      !.rolledBack = IF ok THEN "ok" ELSE "failed"]]
    /\ UNCHANGED <<forms, questions, nextId, procs, val, agg, detail>>

\* finally: client.release() (lines 66-68), then the return or the throw
Release(p) ==
    /\ call[p].pc = "release"
    /\ call' = [call EXCEPT ![p] =
            [@ EXCEPT !.pc = "done", !.client = "released", !.releases = @ + 1,
                      !.outcome = IF call[p].failedAt = "none"
                                  THEN "created" ELSE "persistence_error"]]
    /\ UNCHANGED <<store, procs, val, agg, detail>>

\* the caller has the result; the handler is free for the next request
Return(p) ==
    /\ call[p].pc = "done"
    /\ call' = [call EXCEPT ![p] = IdleCall]
    /\ UNCHANGED <<store, procs, val, agg, detail>>

(***************************************************************************)
(* questionService: updateQuestion, deleteQuestion, reorderQuestions, and  *)
(* responseService.deleteResponse; one step per await.                     *)
(***************************************************************************)
\* the end of a call that throws or returns
Finish(p, outcome) ==
    call' = [call EXCEPT ![p] = [@ EXCEPT !.pc = "done", !.outcome = outcome]]

\* variant: every caller passes for the owner
IsOwnerAnyone(form, userId) == TRUE

\* form.user_id !== userId throws forbidden
IsOwner(form, userId) == form.user_id = userId

\* formModel.findById and the checks on its result, the same in the four
\* operations: not found, forbidden, or on to the next step
FindOwnedForm(p, next) ==
    IF call[p].formId \notin DOMAIN forms THEN Finish(p, "not_found")
    ELSE IF ~IsOwner(forms[call[p].formId], call[p].userId) THEN Finish(p, "forbidden")
    ELSE call' = [call EXCEPT ![p] = [@ EXCEPT !.pc = next]]

\* questionModel.findById and the checks on its result
FindQuestionOfForm(p, next) ==
    LET rows == {q \in questions : q.id = call[p].questionId}
    IN IF rows = {} THEN Finish(p, "not_found")
       ELSE IF \E q \in rows : q.form_id # call[p].formId THEN Finish(p, "not_found")
       ELSE call' = [call EXCEPT ![p] = [@ EXCEPT !.pc = next, !.existing = rows]]

\* variant: the form is taken to have no submissions
hasSubmissionsNever(formId) == FALSE

\* formModel.hasSubmissions: SELECT EXISTS(SELECT 1 FROM responses WHERE form_id = $1)
hasSubmissions(formId) == \E r \in responses : r.form_id = formId

\* variant: no option counts as removed
RemovedOptionsNone(existingOptions, newOptions) == {}

\* existingOptions.filter(opt => !newOptions.includes(opt))
RemovedOptions(existingOptions, newOptions) ==
    {existingOptions[i] : i \in 1..Len(existingOptions)}
        \ {newOptions[i] : i \in 1..Len(newOptions)}

\* validateOptionsForType: TRUE when it does not throw
OptionsValid(type, options) ==
    type \in ChoiceTypes =>
        /\ ~options.isNull
        /\ Len(options.items) > 0
        /\ \A i \in 1..Len(options.items) : Trim(options.items[i]) # <<>>
        /\ Cardinality({LowerCase(Trim(options.items[i])) : i \in 1..Len(options.items)})
              = Len(options.items)

\* the row after UPDATE questions SET ... with the given fields
ApplyUpdates(q, u) ==
    [q EXCEPT !.type = IF u.type # "-" THEN u.type ELSE @,
              !.options = IF u.options.given THEN Options(u.options.v) ELSE @,
              !.title = IF u.title.given THEN u.title.v ELSE @,
              !.is_required = IF u.is_required.given THEN u.is_required.v ELSE @]

\* updateQuestion is entered (line 125)
UpdateQuestionCall(p, formId, questionId, updates, userId) ==
    /\ call[p].pc = "idle"
    /\ call' = [call EXCEPT ![p] =
            [IdleCall EXCEPT !.pc = "uqFindForm", !.op = "updateQuestion",
                             !.formId = formId, !.questionId = questionId,
                             !.updates = updates, !.userId = userId]]
    /\ UNCHANGED <<store, procs, val, agg, detail>>

\* lines 127-135
UqFindForm(p) ==
    /\ call[p].pc = "uqFindForm"
    /\ FindOwnedForm(p, "uqFindQuestion")
    /\ UNCHANGED <<store, procs, val, agg, detail>>

\* lines 138-146
UqFindQuestion(p) ==
    /\ call[p].pc = "uqFindQuestion"
    /\ FindQuestionOfForm(p, "uqCheck")
    /\ UNCHANGED <<store, procs, val, agg, detail>>

\* formModel.hasSubmissions and the checks up to the call of
\* questionModel.update (lines 149-197)
UqCheck(p) ==
    /\ call[p].pc = "uqCheck"
    /\ LET existingQuestion == CHOOSE q \in call[p].existing : TRUE
           updates == call[p].updates
           has == hasSubmissions(call[p].formId)
           finalType == IF updates.type # "-" THEN updates.type ELSE existingQuestion.type
           finalOptions == IF updates.options.given THEN Options(updates.options.v)
                           ELSE existingQuestion.options
       IN IF has /\ updates.type # "-" /\ updates.type # existingQuestion.type
          THEN call' = [call EXCEPT ![p] = [@ EXCEPT !.pc = "done", !.outcome = "conflict",
                                                     !.hasSubmissions = has]]
          ELSE IF /\ has
                  /\ updates.options.given
                  /\ existingQuestion.type \in ChoiceTypes
                  /\ RemovedOptions(OptionsOrEmpty(existingQuestion.options),
                                    updates.options.v) # {}
          THEN call' = [call EXCEPT ![p] = [@ EXCEPT !.pc = "done", !.outcome = "conflict",
                                                     !.hasSubmissions = has]]
          ELSE IF updates.type # "-" /\ updates.type \notin QuestionTypes
          THEN call' = [call EXCEPT ![p] = [@ EXCEPT !.pc = "done", !.outcome = "bad_request",
                                                     !.hasSubmissions = has]]
          ELSE IF ~OptionsValid(finalType, finalOptions)
          THEN call' = [call EXCEPT ![p] = [@ EXCEPT !.pc = "done", !.outcome = "bad_request",
                                                     !.hasSubmissions = has]]
          ELSE call' = [call EXCEPT ![p] = [@ EXCEPT !.pc = "uqUpdate",
                                                     !.hasSubmissions = has,
                                                     !.allowedUpdates = updates]]
    /\ UNCHANGED <<store, procs, val, agg, detail>>

\* questionModel.update: UPDATE questions SET ... WHERE id = $n (line 199)
UqUpdate(p) ==
    /\ call[p].pc = "uqUpdate"
    /\ questions' = {IF q.id = call[p].questionId
                     THEN ApplyUpdates(q, call[p].allowedUpdates) ELSE q : q \in questions}
    /\ Finish(p, "updated")
    /\ UNCHANGED <<forms, responses, answers, nextId, procs, val, agg, detail>>

\* deleteQuestion is entered (line 212)
DeleteQuestionCall(p, formId, questionId, userId) ==
    /\ call[p].pc = "idle"
    /\ call' = [call EXCEPT ![p] =
            [IdleCall EXCEPT !.pc = "dqFindForm", !.op = "deleteQuestion",
                             !.formId = formId, !.questionId = questionId,
                             !.userId = userId]]
    /\ UNCHANGED <<store, procs, val, agg, detail>>

\* lines 214-222
DqFindForm(p) ==
    /\ call[p].pc = "dqFindForm"
    /\ FindOwnedForm(p, "dqFindQuestion")
    /\ UNCHANGED <<store, procs, val, agg, detail>>

\* lines 225-233
DqFindQuestion(p) ==
    /\ call[p].pc = "dqFindQuestion"
    /\ FindQuestionOfForm(p, "dqCheck")
    /\ UNCHANGED <<store, procs, val, agg, detail>>

\* lines 236-244
DqCheck(p) ==
    /\ call[p].pc = "dqCheck"
    /\ LET has == hasSubmissions(call[p].formId)
       IN call' = [call EXCEPT ![p] =
            IF has THEN [@ EXCEPT !.pc = "done", !.outcome = "conflict",
                                  !.hasSubmissions = has]
            ELSE [@ EXCEPT !.pc = "dqRemove", !.hasSubmissions = has]]
    /\ UNCHANGED <<store, procs, val, agg, detail>>

\* an open transaction has inserted an answer that references the question:
\* the insert holds a key-share lock on the question row until it ends
ReferencedByOpenTransaction(questionId) ==
    \E o \in procs : \E a \in call[o].txAnswers : a.question_id = questionId

\* questionModel.remove: DELETE FROM questions WHERE id = $1 (line 246); the
\* answers to the question go with it (ON DELETE CASCADE).  The statement
\* waits for the transactions that reference the row
DqRemove(p) ==
    /\ call[p].pc = "dqRemove"
    /\ ~ReferencedByOpenTransaction(call[p].questionId)
    /\ questions' = {q \in questions : q.id # call[p].questionId}
    /\ answers' = {a \in answers : a.question_id # call[p].questionId}
    /\ Finish(p, "deleted")
    /\ UNCHANGED <<forms, responses, nextId, procs, val, agg, detail>>

\* an entry of the orderings argument of reorderQuestions
Ordering(id, order) == [id |-> id, order_index |-> order]

\* reorderQuestions is entered (line 258)
ReorderQuestionsCall(p, formId, orderings, userId) ==
    /\ call[p].pc = "idle"
    /\ call' = [call EXCEPT ![p] =
            [IdleCall EXCEPT !.pc = "rqFindForm", !.op = "reorderQuestions",
                             !.formId = formId, !.orderings = orderings,
                             !.userId = userId, !.idx = 1]]
    /\ UNCHANGED <<store, procs, val, agg, detail>>

\* lines 260-268
RqFindForm(p) ==
    /\ call[p].pc = "rqFindForm"
    /\ FindOwnedForm(p, IF Len(call[p].orderings) = 0 THEN "rqGetClient" ELSE "rqBelongs")
    /\ UNCHANGED <<store, procs, val, agg, detail>>

\* questionModel.belongsToForm: EXISTS(... WHERE id = $1 AND form_id = $2)
belongsToForm(questionId, formId) ==
    \E q \in questions : q.id = questionId /\ q.form_id = formId

\* one iteration of the loop of lines 271-276
RqBelongs(p) ==
    /\ call[p].pc = "rqBelongs"
    /\ IF ~belongsToForm(call[p].orderings[call[p].idx].id, call[p].formId)
       THEN Finish(p, "bad_request")
       ELSE call' = [call EXCEPT ![p] =
                IF call[p].idx = Len(call[p].orderings)
                THEN [@ EXCEPT !.pc = "rqGetClient", !.idx = 1]
                ELSE [@ EXCEPT !.idx = @ + 1]]
    /\ UNCHANGED <<store, procs, val, agg, detail>>

\* questionModel.reorderQuestions: db.getClient() (questionModel.js line 204)
RqGetClient(p, ok) ==
    /\ call[p].pc = "rqGetClient"
    /\ call' = [call EXCEPT ![p] =
            IF ok THEN [@ EXCEPT !.pc = "rqBegin", !.client = "held", !.idx = 1]
            ELSE [@ EXCEPT !.pc = "done", !.failedAt = "connect",
                           !.outcome = "persistence_error"]]
    /\ UNCHANGED <<store, procs, val, agg, detail>>

\* client.query('BEGIN') (line 207)
RqBegin(p, ok) ==
    /\ call[p].pc = "rqBegin"
    /\ call' = [call EXCEPT ![p] =
            IF ok THEN [@ EXCEPT !.pc = IF Len(call[p].orderings) = 0
                                        THEN "rqCommit" ELSE "rqUpdate"]
            ELSE [@ EXCEPT !.pc = "rqRollback", !.failedAt = "begin"]]
    /\ UNCHANGED <<store, procs, val, agg, detail>>

\* UPDATE questions SET order_index = $1 WHERE id = $2 AND form_id = $3, one
\* statement per ordering (lines 209-214); pending until COMMIT
RqUpdate(p, ok) ==
    /\ call[p].pc = "rqUpdate"
    /\ call' = [call EXCEPT ![p] =
            IF ok
            THEN [@ EXCEPT !.pc = IF call[p].idx = Len(call[p].orderings)
                                  THEN "rqCommit" ELSE "rqUpdate",
                           !.idx = @ + 1,
                           !.txOrder = Append(@, call[p].orderings[call[p].idx])]
            ELSE [@ EXCEPT !.pc = "rqRollback", !.failedAt = "update"]]
    /\ UNCHANGED <<store, procs, val, agg, detail>>

\* the order_index of a row after the pending updates, the last one last
RECURSIVE OrderAfter(_, _, _, _)
OrderAfter(q, formId, tx, i) ==
    IF i > Len(tx) THEN q.order_index
    ELSE IF tx[i].id = q.id /\ q.form_id = formId
         THEN OrderAfter([q EXCEPT !.order_index = tx[i].order_index], formId, tx, i + 1)
         ELSE OrderAfter(q, formId, tx, i + 1)

\* client.query('COMMIT') (line 216)
RqCommit(p, ok) ==
    /\ call[p].pc = "rqCommit"
    /\ IF ok
       THEN /\ questions' = {[q EXCEPT !.order_index =
                                OrderAfter(q, call[p].formId, call[p].txOrder, 1)] :
                             q \in questions}
            /\ call' = [call EXCEPT ![p] = [@ EXCEPT !.pc = "rqRelease", !.txOrder = <<>>]]
       ELSE /\ call' = [call EXCEPT ![p] =
                    [@ EXCEPT !.pc = "rqRollback", !.failedAt = "commit"]]
            /\ UNCHANGED questions
    /\ UNCHANGED <<forms, responses, answers, nextId, procs, val, agg, detail>>

\* catch: client.query('ROLLBACK'); throw (lines 218-220)
RqRollback(p, ok) ==
    /\ call[p].pc = "rqRollback"
    /\ call' = [call EXCEPT ![p] =
            [@ EXCEPT !.pc = "rqRelease", !.txOrder = <<>>,
                      !.rolledBack = IF ok THEN "ok" ELSE "failed"]]
    /\ UNCHANGED <<store, procs, val, agg, detail>>

\* finally: client.release() (lines 221-223), then the throw or the return
\* to reorderQuestions of the service
RqRelease(p) ==
    /\ call[p].pc = "rqRelease"
    /\ call' = [call EXCEPT ![p] =
            IF call[p].failedAt = "none"
            THEN [@ EXCEPT !.pc = "rqFindQuestions", !.client = "released",
                           !.releases = @ + 1]
            ELSE [@ EXCEPT !.pc = "done", !.client = "released", !.releases = @ + 1,
                           !.outcome = "persistence_error"]]
    /\ UNCHANGED <<store, procs, val, agg, detail>>

\* return await questionModel.findByFormId(formId) (questionService.js line 281)
RqFindQuestions(p) ==
    /\ call[p].pc = "rqFindQuestions"
    /\ Finish(p, "reordered")
    /\ UNCHANGED <<store, procs, val, agg, detail>>

\* formService.updateForm with a status is entered (line 188)
UpdateFormCall(p, formId, status, userId) ==
    /\ call[p].pc = "idle"
    /\ call' = [call EXCEPT ![p] =
            [IdleCall EXCEPT !.pc = "ufFindForm", !.op = "updateForm",
                             !.formId = formId, !.newStatus = status,
                             !.userId = userId]]
    /\ UNCHANGED <<store, procs, val, agg, detail>>

\* formModel.findById and the checks up to the call of formModel.update
\* (lines 190-220)
UfFindForm(p) ==
    /\ call[p].pc = "ufFindForm"
    /\ IF call[p].formId \notin DOMAIN forms THEN Finish(p, "not_found")
       ELSE IF ~IsOwner(forms[call[p].formId], call[p].userId) THEN Finish(p, "forbidden")
       ELSE IF call[p].newStatus \notin Statuses THEN Finish(p, "bad_request")
       ELSE call' = [call EXCEPT ![p] = [@ EXCEPT !.pc = "ufUpdate"]]
    /\ UNCHANGED <<store, procs, val, agg, detail>>

\* formModel.update: UPDATE forms SET status = ... WHERE id = $n (line 223)
UfUpdate(p) ==
    /\ call[p].pc = "ufUpdate"
    /\ forms' = [f \in DOMAIN forms |->
                    IF f = call[p].formId
                    THEN [forms[f] EXCEPT !.status = call[p].newStatus]
                    ELSE forms[f]]
    /\ Finish(p, "updated")
    /\ UNCHANGED <<questions, responses, answers, nextId, procs, val, agg, detail>>

\* deleteResponse is entered (responseService.js line 266)
DeleteResponseCall(p, formId, responseId, userId) ==
    /\ call[p].pc = "idle"
    /\ call' = [call EXCEPT ![p] =
            [IdleCall EXCEPT !.pc = "drFindForm", !.op = "deleteResponse",
                             !.formId = formId, !.responseId = responseId,
                             !.userId = userId]]
    /\ UNCHANGED <<store, procs, val, agg, detail>>

\* lines 268-276
DrFindForm(p) ==
    /\ call[p].pc = "drFindForm"
    /\ FindOwnedForm(p, "drFindResponse")
    /\ UNCHANGED <<store, procs, val, agg, detail>>

\* responseModel.findById, the query on responses (responseModel.js lines
\* 77-94): no row makes it return null and deleteResponse throw notFound
DrFindResponse(p) ==
    /\ call[p].pc = "drFindResponse"
    /\ LET rows == {r \in responses : r.id = call[p].responseId}
       IN IF rows = {} THEN Finish(p, "not_found")
          ELSE call' = [call EXCEPT ![p] = [@ EXCEPT !.pc = "drFindAnswers", !.found = rows]]
    /\ UNCHANGED <<store, procs, val, agg, detail>>

\* responseModel.findById, the query on answers (lines 99-118), and the
\* check of response.form_id (responseService.js lines 281-287)
DrFindAnswers(p) ==
    /\ call[p].pc = "drFindAnswers"
    /\ IF \E r \in call[p].found : r.form_id # call[p].formId
       THEN Finish(p, "not_found")
       ELSE call' = [call EXCEPT ![p] = [@ EXCEPT !.pc = "drRemove"]]
    /\ UNCHANGED <<store, procs, val, agg, detail>>

\* responseModel.remove: DELETE FROM responses WHERE id = $1 (line 289); the
\* answers of the response go with it (ON DELETE CASCADE)
DrRemove(p) ==
    /\ call[p].pc = "drRemove"
    /\ responses' = {r \in responses : r.id # call[p].responseId}
    /\ answers' = {a \in answers : a.response_id # call[p].responseId}
    /\ Finish(p, "deleted")
    /\ UNCHANGED <<forms, questions, nextId, procs, val, agg, detail>>

(***************************************************************************)
(* aggregateSubmissionData (frontend submission service).  A plain object  *)
(* used as a dictionary is the sequence of its own properties in insertion *)
(* order; its keys are option labels and ordinary words.                   *)
(***************************************************************************)
\* longest list of submissions handed to aggregateSubmissionData
MaxSubmissions == 2

Maybe == <<"M", "a", "y", "b", "e">>
Cat == <<"c", "a", "t">>
Dog == <<"d", "o", "g">>
Bird == <<"b", "i", "r", "d">>
Sp == <<" ">>
CatDogCat == Cat \o Sp \o Dog \o Sp \o Cat
DogBird == Dog \o Sp \o Bird
\* "Cat  to cat": an upper-case letter, a run of two blanks, a short token
CatToCat == <<"C">> \o Tail(Cat) \o Sp \o Sp \o <<"t", "o">> \o Sp \o Cat

\* obj.hasOwnProperty(key) and the position of the property
HasKey(obj, key) == \E i \in 1..Len(obj) : obj[i].key = key
KeyIndex(obj, key) == CHOOSE i \in 1..Len(obj) : obj[i].key = key

\* obj[key] || 0
GetOrZero(obj, key) ==
    IF HasKey(obj, key) THEN obj[KeyIndex(obj, key)].count ELSE 0

\* obj[key] = n: a new key is added after the existing ones
SetKey(obj, key, n) ==
    IF HasKey(obj, key) THEN [obj EXCEPT ![KeyIndex(obj, key)].count = n]
    ELSE Append(obj, [key |-> key, count |-> n])

\* obj[key] = (obj[key] || 0) + 1
Increment(obj, key) == SetKey(obj, key, GetOrZero(obj, key) + 1)

RECURSIVE IncrementAll(_, _, _)
IncrementAll(obj, keys, i) ==
    IF i > Len(keys) THEN obj
    ELSE IncrementAll(Increment(obj, keys[i]), keys, i + 1)

RECURSIVE SeedFrom(_, _, _)
SeedFrom(items, i, obj) ==
    IF i > Len(items) THEN obj
    ELSE SeedFrom(items, i + 1, SetKey(obj, items[i], 0))

\* variant: no option is pre-populated
SeedNone(options) == <<>>

\* if (question.options?.length > 0) forEach option: data[option] = 0
SeedOptions(options) ==
    IF ~options.isNull /\ Len(options.items) > 0
    THEN SeedFrom(options.items, 1, <<>>)
    ELSE <<>>

\* a property of data that has not been assigned yet
NotSet == [set |-> FALSE, v |-> <<>>]

\* the entry of stats for one question (lines 160-176); responses and
\* wordFrequency are the properties of that name of data
InitStats(question) ==
    [question |-> [id |-> question.id, title |-> question.title,
                   type |-> question.type,
                   options |-> OptionsOrEmpty(question.options)],
     totalResponses |-> 0,
     data |-> SeedOptions(question.options),
     responses |-> NotSet,
     wordFrequency |-> NotSet]

RECURSIVE Join(_, _)
\* Array.prototype.join(',') on an array of strings
Join(a, i) ==
    IF i > Len(a) THEN <<>>
    ELSE (IF i > 1 THEN <<",">> ELSE <<>>) \o a[i].s \o Join(a, i + 1)

\* String(value) for a string or an array of strings
StringOf(value) == IF value.t = "array" THEN Join(value.a, 1) ELSE value.s

\* String.prototype.split(/\s+/): the pieces between the runs of whitespace,
\* an empty piece at either end included
RECURSIVE SplitFrom(_, _, _, _, _)
SplitFrom(s, i, inRun, cur, pieces) ==
    IF i > Len(s) THEN Append(pieces, cur)
    ELSE IF IsSpace(s[i])
         THEN (IF inRun THEN SplitFrom(s, i + 1, TRUE, cur, pieces)
               ELSE SplitFrom(s, i + 1, TRUE, <<>>, Append(pieces, cur)))
         ELSE SplitFrom(s, i + 1, FALSE, Append(cur, s[i]), pieces)

SplitWhitespace(s) == SplitFrom(s, 1, FALSE, <<>>, <<>>)

\* variant: tokens of two characters are kept
LongEnoughTwo(w) == Len(w) >= 2

\* w => w.length > 2
LongEnough(w) == Len(w) > 2

\* String(value).toLowerCase().split(/\s+/).filter(w => w.length > 2)
Words(value) ==
    SelectSeq(SplitWhitespace(LowerCase(StringOf(value))), LongEnough)

\* variant: only the first selected option is counted
CheckboxValuesFirst(value) ==
    IF value.t = "array"
    THEN (IF Len(value.a) = 0 THEN <<>> ELSE <<value.a[1].s>>)
    ELSE <<StringOf(value)>>

\* Array.isArray(value) ? value : [value]
CheckboxValues(value) ==
    IF value.t = "array" THEN [i \in 1..Len(value.a) |-> value.a[i].s]
    ELSE <<StringOf(value)>>

\* variant: totalResponses counts the selected options
ResponsesIncrementPerOption(value) ==
    IF value.t = "array" THEN Len(value.a) ELSE 1

\* questionStats.totalResponses++
ResponsesIncrement(value) == 1

\* the body of answers.forEach (lines 184-217)
ProcessAnswer(stats, answer) ==
    IF answer.question_id \notin DOMAIN stats THEN stats
    ELSE LET questionStats == stats[answer.question_id]
             value == answer.value
             counted == [questionStats EXCEPT
                            !.totalResponses = @ + ResponsesIncrement(value)]
         IN [stats EXCEPT ![answer.question_id] =
              IF questionStats.question.type = "short_answer"
              THEN [counted EXCEPT
                      !.responses = [set |-> TRUE, v |-> Append(@.v, value)],
                      !.wordFrequency =
                          [set |-> TRUE, v |-> IncrementAll(@.v, Words(value), 1)]]
              ELSE IF questionStats.question.type = "checkbox"
              THEN [counted EXCEPT
                      !.data = IncrementAll(@, CheckboxValues(value), 1)]
              ELSE [counted EXCEPT !.data = Increment(@, StringOf(value))]]

RECURSIVE ProcessAnswers(_, _, _)
ProcessAnswers(stats, as, j) ==
    IF j > Len(as) THEN stats
    ELSE ProcessAnswers(ProcessAnswer(stats, as[j]), as, j + 1)

RECURSIVE ProcessSubmissions(_, _, _)
ProcessSubmissions(stats, submissions, i) ==
    IF i > Len(submissions) THEN stats
    ELSE ProcessSubmissions(ProcessAnswers(stats, submissions[i].answers, 1),
                            submissions, i + 1)

aggregateSubmissionData(submissions, qs) ==
    ProcessSubmissions(
        [id \in {qs[i].id : i \in 1..Len(qs)} |->
            InitStats(qs[CHOOSE i \in 1..Len(qs) : qs[i].id = id])],
        submissions, 1)

(***************************************************************************)
(* SpecA: aggregateSubmissionData applied to the questions of a form and   *)
(* to a list of its submissions.                                           *)
(***************************************************************************)
YesNoMaybe == Options(<<Yes, No, Maybe>>)

\* the question lists of SpecA: q1 has one selection, q2 is a checkbox, q3 a
\* short answer; the last form has the short answer alone
AggQuestionLists ==
    {<<Question("q1", "f1", "multiple_choice", YesNo, TRUE, 0),
       Question("q2", "f1", "checkbox", YesNoMaybe, FALSE, 1),
       Question("q3", "f1", "short_answer", NullOptions, FALSE, 2)>>,
     <<Question("q3", "f1", "short_answer", NullOptions, TRUE, 0),
       Question("q2", "f1", "checkbox", YesNo, TRUE, 1),
       Question("q1", "f1", "dropdown", YesNoMaybe, FALSE, 2)>>,
     <<Question("q3", "f1", "short_answer", NullOptions, FALSE, 0)>>}

Submission(as) == [answers |-> as]

\* the submissions of SpecA: stored answers are normalized values, so a
\* selection is an option, a checkbox value an array of distinct options and
\* an optional question may carry the empty value
AggSubmissions ==
    {Submission(<<RawAnswer("q1", Str(Yes)),
                  RawAnswer("q2", Arr(<<ElemStr(Yes), ElemStr(No)>>)),
                  RawAnswer("q3", Str(CatDogCat))>>),
     Submission(<<RawAnswer("q1", Str(No)),
                  RawAnswer("q2", Arr(<<ElemStr(Yes)>>)),
                  RawAnswer("q3", Str(DogBird))>>),
     Submission(<<RawAnswer("q1", Str(<<>>)),
                  RawAnswer("q2", Arr(<<>>)),
                  RawAnswer("q3", Str(<<>>))>>),
     Submission(<<RawAnswer("q3", Str(CatToCat))>>),
     Submission(<<>>),
     Submission(<<RawAnswer("q1", Str(Yes))>>),
     Submission(<<RawAnswer("q2", Arr(<<ElemStr(No), ElemStr(Yes)>>)),
                  RawAnswer("q9", Str(Yes))>>),
     Submission(<<RawAnswer("q3", Str(CatDogCat))>>),
     Submission(<<RawAnswer("q3", Str(DogBird))>>)}

RECURSIVE SubmissionListsOfLen(_)
SubmissionListsOfLen(n) ==
    IF n = 0 THEN {<<>>}
    ELSE {Append(l, s) : l \in SubmissionListsOfLen(n - 1), s \in AggSubmissions}

SubmissionLists == UNION {SubmissionListsOfLen(k) : k \in 0..MaxSubmissions}

AggIdle == [pc |-> "off", questions |-> <<>>, submissions |-> <<>>, stats |-> <<>>,
            chart |-> <<>>]

Aggregate ==
    /\ agg.pc = "start"
    /\ agg' = [agg EXCEPT !.pc = "aggregated",
                          !.stats = aggregateSubmissionData(agg.submissions,
                                                            agg.questions)]
    /\ UNCHANGED <<forms, questions, responses, answers, nextId, procs, call, val,
                   detail>>

(***************************************************************************)
(* formatChartData (FormAnalyticsPage.jsx).  Object.entries lists the own  *)
(* properties of an object with the keys that are array indices first, in  *)
(* ascending numeric order, and the other keys after them in the order in  *)
(* which they were created.                                                *)
(***************************************************************************)
Digits == {"0", "1", "2", "3", "4", "5", "6", "7", "8", "9"}

DigitValue(c) ==
    CASE c = "0" -> 0 [] c = "1" -> 1 [] c = "2" -> 2 [] c = "3" -> 3 [] c = "4" -> 4
      [] c = "5" -> 5 [] c = "6" -> 6 [] c = "7" -> 7 [] c = "8" -> 8 [] c = "9" -> 9

\* canonical decimal numerals compare as their numbers: the shorter is the
\* smaller, and numerals of one length compare digit by digit
NumeralLess(a, b) ==
    \/ Len(a) < Len(b)
    \/ /\ Len(a) = Len(b)
       /\ \E i \in 1..Len(a) :
            /\ DigitValue(a[i]) < DigitValue(b[i])
            /\ \A j \in 1..(i - 1) : a[j] = b[j]

\* 2^32 - 1, the first integer that is not an array index
MaxArrayIndexBound == <<"4", "2", "9", "4", "9", "6", "7", "2", "9", "5">>

\* the key is the canonical decimal form of an integer below 2^32 - 1
IsArrayIndex(key) ==
    /\ Len(key) > 0
    /\ \A i \in 1..Len(key) : key[i] \in Digits
    /\ (Len(key) = 1 \/ key[1] # "0")
    /\ NumeralLess(key, MaxArrayIndexBound)

RECURSIVE SortIndexKeys(_)
\* the array-index properties, in ascending numeric order
SortIndexKeys(props) ==
    IF props = {} THEN <<>>
    ELSE LET first == CHOOSE e \in props : \A f \in props : ~NumeralLess(f.key, e.key)
         IN <<first>> \o SortIndexKeys(props \ {first})

\* Object.entries(obj)
ObjectEntries(obj) ==
    SortIndexKeys({obj[i] : i \in {j \in 1..Len(obj) : IsArrayIndex(obj[j].key)}})
    \o SelectSeq(obj, LAMBDA e : ~IsArrayIndex(e.key))

\* .map(([word, count]) => ({ name: word, value: count }))
RECURSIVE ToPoints(_, _)
ToPoints(entries, i) ==
    IF i > Len(entries) THEN <<>>
    ELSE <<[name |-> entries[i].key, value |-> entries[i].count]>>
            \o ToPoints(entries, i + 1)

\* one step of the stable sort: the point goes after the points that do not
\* have a smaller value
InsertByValue(sorted, point) ==
    LET k == Cardinality({i \in 1..Len(sorted) : sorted[i].value >= point.value})
    IN SubSeq(sorted, 1, k) \o <<point>> \o SubSeq(sorted, k + 1, Len(sorted))

RECURSIVE SortByValueFrom(_, _, _)
SortByValueFrom(points, i, sorted) ==
    IF i > Len(points) THEN sorted
    ELSE SortByValueFrom(points, i + 1, InsertByValue(sorted, points[i]))

\* .sort((a, b) => b.value - a.value): descending and stable
SortByValue(points) == SortByValueFrom(points, 1, <<>>)

\* .slice(0, 10)
TopWords == 10
Slice(points, n) == SubSeq(points, 1, IF Len(points) < n THEN Len(points) ELSE n)

\* formatChartData(data, questionType) on the entry of one question; the
\* keys 'responses' and 'wordFrequency' that the second branch filters out
\* are the fields of that name of the entry
formatChartData(entry, questionType) ==
    IF questionType = "short_answer"
    THEN Slice(SortByValue(ToPoints(ObjectEntries(
                IF entry.wordFrequency.set THEN entry.wordFrequency.v ELSE <<>>), 1)),
               TopWords)
    ELSE SortByValue(ToPoints(ObjectEntries(entry.data), 1))

\* the short answers of SpecF: words, numbers, and a number with a leading
\* zero
N123 == <<"1", "2", "3">>
N999 == <<"9", "9", "9">>
N012 == <<"0", "1", "2">>

FormatAnswers ==
    {Dog \o Sp \o N123, N999 \o Sp \o N123, CatDogCat, N012 \o Sp \o Cat, N123, DogBird}

FormatSubmissions == {Submission(<<RawAnswer("q3", Str(s))>>) : s \in FormatAnswers}

RECURSIVE FormatSubmissionListsOfLen(_)
FormatSubmissionListsOfLen(n) ==
    IF n = 0 THEN {<<>>}
    ELSE {Append(l, s) : l \in FormatSubmissionListsOfLen(n - 1), s \in FormatSubmissions}

FormatSubmissionLists == UNION {FormatSubmissionListsOfLen(k) : k \in 0..MaxSubmissions}

\* the chart of the first question of the list (QuestionChart, line 482)
FormatChart ==
    /\ agg.pc = "aggregated"
    /\ LET q == agg.questions[1]
       IN agg' = [agg EXCEPT !.pc = "formatted",
                             !.chart = formatChartData(agg.stats[q.id], q.type)]
    /\ UNCHANGED <<forms, questions, responses, answers, nextId, procs, call, val,
                   detail>>

(***************************************************************************)
(* The stored form of an answer value.  createWithAnswers passes           *)
(* JSON.stringify(value) to the JSONB column; the database reads the text  *)
(* as a JSON value and the driver hands that value to findByIdWithDetails; *)
(* parseAnswerValue is applied to it.  JSON texts are character sequences  *)
(* and both conversions are computed.  The grammar is the part of JSON the *)
(* values of SpecJ can produce: strings with the escapes of quote,         *)
(* backslash and slash, integers, the three literals and arrays of these.  *)
(***************************************************************************)
Quote == "\""
Backslash == "\\"

RECURSIVE EscapeFrom(_, _)
\* the characters of a string as JSON.stringify writes them
EscapeFrom(s, i) ==
    IF i > Len(s) THEN <<>>
    ELSE (IF s[i] \in {Quote, Backslash} THEN <<Backslash, s[i]>> ELSE <<s[i]>>)
            \o EscapeFrom(s, i + 1)

QuoteString(s) == <<Quote>> \o EscapeFrom(s, 1) \o <<Quote>>

RECURSIVE StringifyElements(_, _)
StringifyElements(a, i) ==
    IF i > Len(a) THEN <<>>
    ELSE (IF i > 1 THEN <<",">> ELSE <<>>) \o QuoteString(a[i].s)
            \o StringifyElements(a, i + 1)

\* JSON.stringify(value) for a string or an array of strings
JsonStringify(value) ==
    IF value.t = "array" THEN <<"[">> \o StringifyElements(value.a, 1) \o <<"]">>
    ELSE QuoteString(value.s)

ParseFailed == [ok |-> FALSE, v |-> Undef, next |-> 0]
Parsed(v, next) == [ok |-> TRUE, v |-> v, next |-> next]

RECURSIVE SkipWs(_, _)
\* the first position from i on that holds no white space
SkipWs(text, i) ==
    IF i <= Len(text) /\ IsSpace(text[i]) THEN SkipWs(text, i + 1) ELSE i

RECURSIVE ScanString(_, _, _)
\* the characters of a string literal from position j to the closing quote
ScanString(text, j, acc) ==
    IF j > Len(text) THEN ParseFailed
    ELSE IF text[j] = Quote THEN Parsed(Str(acc), j + 1)
    ELSE IF text[j] = Backslash
    THEN IF j + 1 <= Len(text) /\ text[j + 1] \in {Quote, Backslash, "/"}
         THEN ScanString(text, j + 2, Append(acc, text[j + 1]))
         ELSE ParseFailed
    ELSE ScanString(text, j + 1, Append(acc, text[j]))

RECURSIVE SkipDigits(_, _)
SkipDigits(text, i) ==
    IF i <= Len(text) /\ text[i] \in Digits THEN SkipDigits(text, i + 1) ELSE i

NumberOf(s) == [t |-> "number", s |-> s, a |-> <<>>]
BooleanOf(s) == [t |-> "boolean", s |-> s, a |-> <<>>]

\* an integer: an optional minus sign, then 0 or a digit sequence that does
\* not begin with 0
ScanNumber(text, i) ==
    LET d == IF text[i] = "-" THEN i + 1 ELSE i
        e == IF d <= Len(text) /\ text[d] = "0" THEN d + 1 ELSE SkipDigits(text, d)
    IN IF e = d THEN ParseFailed
       ELSE Parsed(NumberOf(SubSeq(text, i, e - 1)), e)

HasPrefix(text, i, word) ==
    /\ i + Len(word) - 1 <= Len(text)
    /\ SubSeq(text, i, i + Len(word) - 1) = word

TrueWord == <<"t", "r", "u", "e">>
FalseWord == <<"f", "a", "l", "s", "e">>
NullWord == <<"n", "u", "l", "l">>

\* a value that is not an array, at position i
ParseScalar(text, i) ==
    IF i > Len(text) THEN ParseFailed
    ELSE IF text[i] = Quote THEN ScanString(text, i + 1, <<>>)
    ELSE IF HasPrefix(text, i, TrueWord) THEN Parsed(BooleanOf(TrueWord), i + 4)
    ELSE IF HasPrefix(text, i, FalseWord) THEN Parsed(BooleanOf(FalseWord), i + 5)
    ELSE IF HasPrefix(text, i, NullWord) THEN Parsed(Null, i + 4)
    ELSE IF text[i] = "-" \/ text[i] \in Digits THEN ScanNumber(text, i)
    ELSE ParseFailed

Element(v) == [t |-> v.t, s |-> v.s]

RECURSIVE ParseElements(_, _, _)
\* the elements of an array from position i, after '[' or ','
ParseElements(text, i, acc) ==
    LET r == ParseScalar(text, SkipWs(text, i))
        j == SkipWs(text, r.next)
    IN IF ~r.ok \/ j > Len(text) THEN ParseFailed
       ELSE IF text[j] = "]" THEN Parsed(Arr(Append(acc, Element(r.v))), j + 1)
       ELSE IF text[j] = "," THEN ParseElements(text, j + 1, Append(acc, Element(r.v)))
       ELSE ParseFailed

ParseArray(text, i) ==
    LET j == SkipWs(text, i + 1)
    IN IF j <= Len(text) /\ text[j] = "]" THEN Parsed(Arr(<<>>), j + 1)
       ELSE ParseElements(text, j, <<>>)

\* JSON.parse(text): one value between optional white space; ok is FALSE
\* where JSON.parse throws
JsonParse(text) ==
    LET i == SkipWs(text, 1)
        r == IF i <= Len(text) /\ text[i] = "[" THEN ParseArray(text, i)
             ELSE ParseScalar(text, i)
    IN IF r.ok /\ SkipWs(text, r.next) > Len(text) THEN r ELSE ParseFailed

\* parseAnswerValue(value) (submissionService.js, lines 187-199)
parseAnswerValue(value) ==
    IF value.t # "string" THEN value
    ELSE IF JsonParse(value.s).ok THEN JsonParse(value.s).v
    ELSE value

\* the normalized values of SpecJ: trimmed strings over the characters of
\* the model, strings that are JSON texts, and arrays of option labels
JsonLikeStrings ==
    {N123, <<"0">>, <<"-", "1">>, N012, TrueWord, FalseWord, NullWord,
     <<Quote, "a", Quote>>, <<"a", Quote>>, <<"a", Backslash>>, <<"[", "]">>,
     <<"[", "1", "]">>, <<"[", Quote, "a", Quote, ",", " ", Quote, Quote, "]">>,
     <<"[", "a">>, <<"1", "a">>, <<"-">>, Yes, No, CatDogCat}

DetailStrings == {Trim(s) : s \in StringsUpTo(MaxStrLen)} \cup JsonLikeStrings

DetailElements == {ElemStr(s) : s \in {Yes, No, N123, TrueWord, <<"a", Quote>>, <<>>}}

RECURSIVE DetailArraysOfLen(_)
DetailArraysOfLen(n) ==
    IF n = 0 THEN {<<>>}
    ELSE {Append(a, e) : a \in DetailArraysOfLen(n - 1), e \in DetailElements}

DetailValues ==
    {Str(s) : s \in DetailStrings}
    \cup {Arr(a) : a \in UNION {DetailArraysOfLen(k) : k \in 0..MaxArrLen}}

DetailIdle ==
    [pc |-> "off", v |-> Undef, valueJson |-> <<>>, column |-> Undef, value |-> Undef]

\* const valueJson = JSON.stringify(answer.value) and the INSERT into the
\* JSONB column, which holds the value the text denotes
StoreValue ==
    /\ detail.pc = "start"
    /\ detail' = [detail EXCEPT !.pc = "stored",
                                !.valueJson = JsonStringify(detail.v),
                                !.column = JsonParse(JsonStringify(detail.v)).v]
    /\ UNCHANGED <<forms, questions, responses, answers, nextId, procs, call, val, agg>>

\* value: parseAnswerValue(answer.value) on the row of findByIdWithDetails
FormatSubmissionDetail ==
    /\ detail.pc = "stored"
    /\ detail' = [detail EXCEPT !.pc = "returned",
                                !.value = parseAnswerValue(detail.column)]
    /\ UNCHANGED <<forms, questions, responses, answers, nextId, procs, call, val, agg>>

(***************************************************************************)
(* The specifications.                                                     *)
(***************************************************************************)
Init ==
    /\ forms \in {[f \in {"f1", "f2", "f3"} |->
                    [status |-> IF f = "f1" THEN s ELSE "published",
                     user_id |-> FormOwner(f)]] : s \in Statuses}
    /\ questions \in Schemas
    /\ responses = {}
    /\ answers = {}
    /\ nextId = 1
    /\ procs = {1}
    /\ call = [p \in AllProcs |-> IdleCall]
    /\ val = ValIdle
    /\ agg = AggIdle
    /\ detail = DetailIdle

Next ==
    \/ \E p \in procs, f \in FormIds : SubmitCall(p, f)
    \/ \E p \in procs : SubmitFindForm(p)
    \/ \E p \in procs, a \in AnswerArrays : SubmitValidate(p, a)
    \/ \E p \in procs, ok \in BOOLEAN : GetClient(p, ok)
    \/ \E p \in procs, ok \in BOOLEAN : Begin(p, ok)
    \/ \E p \in procs, ok \in BOOLEAN : InsertResponse(p, ok)
    \/ \E p \in procs, ok \in BOOLEAN : InsertAnswer(p, ok)
    \/ \E p \in procs, ok \in BOOLEAN : Commit(p, ok)
    \/ \E p \in procs, ok \in BOOLEAN : Rollback(p, ok)
    \/ \E p \in procs : Release(p)
    \/ \E p \in procs : Return(p)

Spec == Init /\ [][Next]_vars

InitV ==
    /\ forms = [f \in {"f1"} |-> [status |-> "published", user_id |-> FormOwner(f)]]
    /\ questions = {}
    /\ responses = {}
    /\ answers = {}
    /\ nextId = 1
    /\ procs = {}
    /\ call = [p \in AllProcs |-> IdleCall]
    /\ val \in {[ValIdle EXCEPT !.pc = "start", !.question = q, !.value = v] :
                    q \in VQuestions, v \in VValues}
    /\ agg = AggIdle
    /\ detail = DetailIdle

NextV == VValidate \/ VRevalidate

SpecV == InitV /\ [][NextV]_vars

InitA ==
    /\ forms = [f \in {"f1"} |-> [status |-> "published", user_id |-> FormOwner(f)]]
    /\ questions = {}
    /\ responses = {}
    /\ answers = {}
    /\ nextId = 1
    /\ procs = {}
    /\ call = [p \in AllProcs |-> IdleCall]
    /\ val = ValIdle
    /\ agg \in {[AggIdle EXCEPT !.pc = "start", !.questions = qs, !.submissions = l] :
                    qs \in AggQuestionLists, l \in SubmissionLists}
    /\ detail = DetailIdle

NextA == Aggregate

SpecA == InitA /\ [][NextA]_vars

\* SpecF: the short answers of a form are aggregated and the word chart of
\* the question is formatted
InitF ==
    /\ forms = [f \in {"f1"} |-> [status |-> "published", user_id |-> FormOwner(f)]]
    /\ questions = {}
    /\ responses = {}
    /\ answers = {}
    /\ nextId = 1
    /\ procs = {}
    /\ call = [p \in AllProcs |-> IdleCall]
    /\ val = ValIdle
    /\ agg \in {[AggIdle EXCEPT !.pc = "start",
                                !.questions = <<Question("q3", "f1", "short_answer",
                                                         NullOptions, FALSE, 0)>>,
                                !.submissions = l] : l \in FormatSubmissionLists}
    /\ detail = DetailIdle

NextF == Aggregate \/ FormatChart

SpecF == InitF /\ [][NextF]_vars

\* SpecJ: one accepted answer value is stored and returned by
\* getSubmissionDetail
InitJ ==
    /\ forms = [f \in {"f1"} |-> [status |-> "published", user_id |-> FormOwner(f)]]
    /\ questions = {}
    /\ responses = {}
    /\ answers = {}
    /\ nextId = 1
    /\ procs = {}
    /\ call = [p \in AllProcs |-> IdleCall]
    /\ val = ValIdle
    /\ agg = AggIdle
    /\ detail \in {[DetailIdle EXCEPT !.pc = "start", !.v = v] : v \in DetailValues}

NextJ == StoreValue \/ FormatSubmissionDetail

SpecJ == InitJ /\ [][NextJ]_vars

(***************************************************************************)
(* SpecQ: one request handler that runs submitResponse, updateQuestion,    *)
(* deleteQuestion, reorderQuestions and deleteResponse calls one after the *)
(* other against the store.                                                *)
(***************************************************************************)
NewTitle == <<"title", "new">>

\* the updates of SpecQ: a change of type to short_answer, an option removed,
\* an option appended, an option appended that differs from an existing one
\* by case only, a new title with the required flag cleared
QUpdates ==
    {Updates("short_answer", NotGiven(<<>>), NotGiven(<<>>), NotGiven(FALSE)),
     Updates("-", Given(<<Yes>>), NotGiven(<<>>), NotGiven(FALSE)),
     Updates("-", Given(<<Yes, No, Maybe>>), NotGiven(<<>>), NotGiven(FALSE)),
     Updates("-", Given(<<Yes, No, yes>>), NotGiven(<<>>), NotGiven(FALSE)),
     Updates("-", NotGiven(<<>>), Given(NewTitle), Given(FALSE))}

\* the updateQuestion calls: the owner on q1 of f1; another user; a question
\* of another form; a form that does not exist
UpdateCalls ==
    {<<"f1", "q1", u, "u1">> : u \in QUpdates}
    \cup {<<"f1", "q1", Updates("-", Given(<<Yes>>), NotGiven(<<>>), NotGiven(FALSE)), "u2">>,
          <<"f1", "q3", Updates("-", NotGiven(<<>>), Given(NewTitle), Given(FALSE)), "u1">>,
          <<"f0", "q1", Updates("-", NotGiven(<<>>), Given(NewTitle), Given(FALSE)), "u1">>}

DeleteQuestionCalls ==
    {<<"f1", "q1", "u1">>, <<"f1", "q1", "u2">>, <<"f1", "q3", "u1">>}

ReorderCalls ==
    {<<"f1", <<Ordering("q1", 1), Ordering("q2", 0)>>, "u1">>,
     <<"f1", <<Ordering("q1", 0), Ordering("q2", 1)>>, "u1">>,
     <<"f1", <<Ordering("q1", 1), Ordering("q3", 0)>>, "u1">>,
     <<"f1", <<Ordering("q1", 1), Ordering("q2", 0)>>, "u2">>}

DeleteResponseCalls == {"f1", "f2"} \X (1..MaxResponses) \X Users

\* the forms submitResponse is called on: f2 has one optional question,
\* f3 has none
QFormIds == {"f1", "f2", "f3"}

\* the answers arrays of SpecQ
QAnswerArrays ==
    {<<>>,
     <<RawAnswer("q1", Str(Yes))>>,
     <<RawAnswer("q3", Str(Yes))>>}

InitQ ==
    /\ forms = [f \in {"f1", "f2", "f3"} |->
                    [status |-> "published", user_id |-> FormOwner(f)]]
    /\ questions = SchemaA
    /\ responses = {}
    /\ answers = {}
    /\ nextId = 1
    /\ procs = {1}
    /\ call = [p \in AllProcs |-> IdleCall]
    /\ val = ValIdle
    /\ agg = AggIdle
    /\ detail = DetailIdle

NextQ ==
    \/ \E p \in procs, f \in QFormIds : SubmitCall(p, f)
    \/ \E p \in procs : SubmitFindForm(p)
    \/ \E p \in procs, a \in QAnswerArrays : SubmitValidate(p, a)
    \/ \E p \in procs, ok \in BOOLEAN : GetClient(p, ok)
    \/ \E p \in procs, ok \in BOOLEAN : Begin(p, ok)
    \/ \E p \in procs, ok \in BOOLEAN : InsertResponse(p, ok)
    \/ \E p \in procs, ok \in BOOLEAN : InsertAnswer(p, ok)
    \/ \E p \in procs, ok \in BOOLEAN : Commit(p, ok)
    \/ \E p \in procs, ok \in BOOLEAN : Rollback(p, ok)
    \/ \E p \in procs : Release(p)
    \/ \E p \in procs : Return(p)
    \/ \E p \in procs, c \in UpdateCalls : UpdateQuestionCall(p, c[1], c[2], c[3], c[4])
    \/ \E p \in procs : UqFindForm(p)
    \/ \E p \in procs : UqFindQuestion(p)
    \/ \E p \in procs : UqCheck(p)
    \/ \E p \in procs : UqUpdate(p)
    \/ \E p \in procs, c \in DeleteQuestionCalls : DeleteQuestionCall(p, c[1], c[2], c[3])
    \/ \E p \in procs : DqFindForm(p)
    \/ \E p \in procs : DqFindQuestion(p)
    \/ \E p \in procs : DqCheck(p)
    \/ \E p \in procs : DqRemove(p)
    \/ \E p \in procs, c \in ReorderCalls : ReorderQuestionsCall(p, c[1], c[2], c[3])
    \/ \E p \in procs : RqFindForm(p)
    \/ \E p \in procs : RqBelongs(p)
    \/ \E p \in procs, ok \in BOOLEAN : RqGetClient(p, ok)
    \/ \E p \in procs, ok \in BOOLEAN : RqBegin(p, ok)
    \/ \E p \in procs, ok \in BOOLEAN : RqUpdate(p, ok)
    \/ \E p \in procs, ok \in BOOLEAN : RqCommit(p, ok)
    \/ \E p \in procs, ok \in BOOLEAN : RqRollback(p, ok)
    \/ \E p \in procs : RqRelease(p)
    \/ \E p \in procs : RqFindQuestions(p)
    \/ \E p \in procs, c \in DeleteResponseCalls : DeleteResponseCall(p, c[1], c[2], c[3])
    \/ \E p \in procs : DrFindForm(p)
    \/ \E p \in procs : DrFindResponse(p)
    \/ \E p \in procs : DrFindAnswers(p)
    \/ \E p \in procs : DrRemove(p)

SpecQ == InitQ /\ [][NextQ]_vars

(***************************************************************************)
(* SpecT: submitResponse calls of one handler with store faults.  Every    *)
(* awaited statement settles, so a step that can be taken is taken.        *)
(***************************************************************************)
InitT == InitQ

NextT ==
    \/ \E p \in procs, f \in QFormIds : SubmitCall(p, f)
    \/ \E p \in procs : SubmitFindForm(p)
    \/ \E p \in procs, a \in QAnswerArrays : SubmitValidate(p, a)
    \/ \E p \in procs, ok \in BOOLEAN : GetClient(p, ok)
    \/ \E p \in procs, ok \in BOOLEAN : Begin(p, ok)
    \/ \E p \in procs, ok \in BOOLEAN : InsertResponse(p, ok)
    \/ \E p \in procs, ok \in BOOLEAN : InsertAnswer(p, ok)
    \/ \E p \in procs, ok \in BOOLEAN : Commit(p, ok)
    \/ \E p \in procs, ok \in BOOLEAN : Rollback(p, ok)
    \/ \E p \in procs : Release(p)
    \/ \E p \in procs : Return(p)

SpecT == InitT /\ [][NextT]_vars /\ WF_vars(NextT)

(***************************************************************************)
(* SpecS: two handlers run submitResponse calls on the form f1 at the same *)
(* time; the store does not fail.                                          *)
(***************************************************************************)
\* the answers arrays of SpecS: valid ones, and one without the required q1
SAnswerArrays ==
    {<<RawAnswer("q1", Str(Yes))>>,
     <<RawAnswer("q1", Str(No)), RawAnswer("q2", Str(<<"a">>))>>,
     <<RawAnswer("q2", Str(<<"a">>))>>}

InitS ==
    /\ forms = [f \in {"f1", "f2", "f3"} |->
                    [status |-> "published", user_id |-> FormOwner(f)]]
    /\ questions = SchemaA
    /\ responses = {}
    /\ answers = {}
    /\ nextId = 1
    /\ procs = AllProcs
    /\ call = [p \in AllProcs |-> IdleCall]
    /\ val = ValIdle
    /\ agg = AggIdle
    /\ detail = DetailIdle

NextS ==
    \/ \E p \in procs : SubmitCall(p, "f1")
    \/ \E p \in procs : SubmitFindForm(p)
    \/ \E p \in procs, a \in SAnswerArrays : SubmitValidate(p, a)
    \/ \E p \in procs : GetClient(p, TRUE)
    \/ \E p \in procs : Begin(p, TRUE)
    \/ \E p \in procs : InsertResponse(p, TRUE)
    \/ \E p \in procs : InsertAnswer(p, TRUE)
    \/ \E p \in procs : Commit(p, TRUE)
    \/ \E p \in procs : Release(p)
    \/ \E p \in procs : Return(p)

SpecS == InitS /\ [][NextS]_vars

(***************************************************************************)
(* SpecC: two handlers; submitResponse calls on f1 run at the same time as *)
(* updateForm, updateQuestion and deleteQuestion calls of the owner.  The  *)
(* store does not fail by itself; an insert fails when the row it          *)
(* references is gone.                                                     *)
(***************************************************************************)
CAnswerArrays == {<<RawAnswer("q1", Str(Yes))>>}

\* the owner closes the form
UpdateFormCalls == {<<"f1", "closed", "u1">>}

\* the owner changes the type of q1, or removes an option of q1
CUpdateCalls ==
    {<<"f1", "q1", Updates("short_answer", NotGiven(<<>>), NotGiven(<<>>), NotGiven(FALSE)), "u1">>,
     <<"f1", "q1", Updates("-", Given(<<Yes>>), NotGiven(<<>>), NotGiven(FALSE)), "u1">>}

CDeleteQuestionCalls == {<<"f1", "q1", "u1">>}

InitC == InitS

NextC ==
    \/ \E p \in procs : SubmitCall(p, "f1")
    \/ \E p \in procs : SubmitFindForm(p)
    \/ \E p \in procs, a \in CAnswerArrays : SubmitValidate(p, a)
    \/ \E p \in procs : GetClient(p, TRUE)
    \/ \E p \in procs : Begin(p, TRUE)
    \/ \E p \in procs : InsertResponse(p, TRUE)
    \/ \E p \in procs : InsertAnswer(p, TRUE)
    \/ \E p \in procs : Commit(p, TRUE)
    \/ \E p \in procs : Rollback(p, TRUE)
    \/ \E p \in procs : Release(p)
    \/ \E p \in procs : Return(p)
    \/ \E p \in procs, c \in UpdateFormCalls : UpdateFormCall(p, c[1], c[2], c[3])
    \/ \E p \in procs : UfFindForm(p)
    \/ \E p \in procs : UfUpdate(p)
    \/ \E p \in procs, c \in CUpdateCalls : UpdateQuestionCall(p, c[1], c[2], c[3], c[4])
    \/ \E p \in procs : UqFindForm(p)
    \/ \E p \in procs : UqFindQuestion(p)
    \/ \E p \in procs : UqCheck(p)
    \/ \E p \in procs : UqUpdate(p)
    \/ \E p \in procs, c \in CDeleteQuestionCalls : DeleteQuestionCall(p, c[1], c[2], c[3])
    \/ \E p \in procs : DqFindForm(p)
    \/ \E p \in procs : DqFindQuestion(p)
    \/ \E p \in procs : DqCheck(p)
    \/ \E p \in procs : DqRemove(p)

SpecC == InitC /\ [][NextC]_vars

(***************************************************************************)
(* Properties.                                                             *)
(***************************************************************************)
\* calls that have read the question list and run the validation loop
Validated(p) == call[p].pc # "idle" /\ Len(call[p].qs) > 0

\* what a value selects: the elements of an array, a non-empty string itself
Selected(v) ==
    IF v.t = "array" THEN {v.a[i].s : i \in 1..Len(v.a)}
    ELSE IF v.t = "string" /\ v.s # <<>> THEN {v.s}
    ELSE {}

OptionSet(q) == {q.options.items[i] : i \in 1..Len(q.options.items)}

IsEmptyValue(v) ==
    \/ (v.t = "string" /\ v.s = <<>>)
    \/ (v.t = "array" /\ v.a = <<>>)

\* C1: when the response insert or an answer insert of createWithAnswers
\* fails, the call ends with a thrown failure and the tables hold no
\* response row and no answer row of that call
C1_FailedInsertLeavesNoRows ==
    \A p \in AllProcs :
        (call[p].pc = "done" /\ call[p].failedAt \in {"response", "answer"}) =>
            /\ call[p].outcome = "persistence_error"
            /\ \A r \in responses : r.id # call[p].rid
            /\ \A a \in answers : a.response_id # call[p].rid

\* C1 witness: the insert of the second answer failed after the response row
\* and the first answer row had been inserted
C1_Witness ==
    \E p \in AllProcs :
        /\ call[p].pc = "done"
        /\ call[p].failedAt = "answer"
        /\ call[p].idx = 2
        /\ call[p].writes = 2

C2_Inv ==
    \A p \in AllProcs :
        Len(call[p].errors) > 0 =>
            /\ call[p].pc = "done"
            /\ call[p].outcome = "validation_failed"
            /\ ~call[p].invoked
            /\ call[p].writes = 0
            /\ call[p].txResponses = {} /\ call[p].txAnswers = {}

C2_Step ==
    \A p \in AllProcs :
        ((Len(call[p].errors) > 0 \/ Len(call'[p].errors) > 0) /\ call'[p] # call[p])
            => (responses' = responses /\ answers' = answers)

\* C2: a submitResponse call with at least one validation error never calls
\* createWithAnswers, and no step of it changes the stored responses and answers
C2_ValidationErrorsPersistNothing == []C2_Inv /\ [][C2_Step]_vars

\* C2 witness: a rejected submission one of whose answers was valid
C2_Witness ==
    \E p \in AllProcs :
        /\ call[p].outcome = "validation_failed"
        /\ Len(call[p].validated) > 0

\* C3: when submitResponse accepts, every required question it read has
\* exactly one answer among those handed to createWithAnswers
C3_RequiredAnsweredOnce ==
    \A p \in AllProcs :
        call[p].invoked =>
            \A i \in 1..Len(call[p].qs) :
                call[p].qs[i].is_required =>
                    Cardinality({k \in 1..Len(call[p].validated) :
                        call[p].validated[k].question_id = call[p].qs[i].id}) = 1

\* C3 witness: an accepted submission to a form with a required and an
\* unanswered optional question
C3_Witness ==
    \E p \in AllProcs :
        /\ call[p].invoked
        /\ \E i \in 1..Len(call[p].qs) : call[p].qs[i].is_required
        /\ Len(call[p].validated) < Len(call[p].qs)

\* C4: an answer array in which a question_id occurs twice is rejected, and
\* no two stored answers share (response_id, question_id)
C4_NoDuplicateAnswers ==
    /\ \A p \in AllProcs :
        (/\ Validated(p)
         /\ \E i, j \in 1..Len(call[p].args) :
                i < j /\ call[p].args[i].question_id = call[p].args[j].question_id)
        => (Len(call[p].errors) > 0 /\ ~call[p].invoked)
    /\ \A a, b \in answers :
        (a.response_id = b.response_id /\ a.question_id = b.question_id) => a = b

\* C4 witness: a submission answering one question twice is rejected while
\* the store holds a response with two answers
C4_Witness ==
    \E p \in AllProcs :
        /\ call[p].outcome = "validation_failed"
        /\ Len(call[p].args) = 2
        /\ call[p].args[1].question_id = call[p].args[2].question_id
        /\ call[p].args[1].question_id \in {"q1", "q2"}
        /\ \E a, b \in answers : a.response_id = b.response_id /\ a # b

\* C5: every value selected by an accepted answer to a choice question is,
\* compared exactly, one of the options the call read; a selected value that
\* is no option makes the submission fail
C5_SelectedAreOptions ==
    \A p \in AllProcs :
        Validated(p) =>
            /\ \A k \in 1..Len(call[p].validated) :
                LET q == GetQuestion(call[p].qs, call[p].validated[k].question_id)
                IN q.type \in ChoiceTypes =>
                    Selected(call[p].validated[k].value) \subseteq OptionSet(q)
            /\ \A i \in 1..Len(call[p].args) :
                (/\ HasQuestion(call[p].qs, call[p].args[i].question_id)
                 /\ LET q == GetQuestion(call[p].qs, call[p].args[i].question_id)
                    IN /\ q.type \in ChoiceTypes
                       /\ ~(Selected(call[p].args[i].value) \subseteq OptionSet(q)))
                => (Len(call[p].errors) > 0 /\ ~call[p].invoked)

\* C5 witness: an accepted submission with a checkbox selection
C5_Witness ==
    \E p \in AllProcs :
        /\ call[p].invoked
        /\ \E k \in 1..Len(call[p].validated) :
            /\ GetQuestion(call[p].qs, call[p].validated[k].question_id).type = "checkbox"
            /\ call[p].validated[k].value = Arr(<<ElemStr(Yes)>>)

\* C6: a call that read a status other than 'published' ends forbidden
\* without reading the questions, inspecting an answer or writing a row
C6_UnpublishedRejectedFirst ==
    \A p \in AllProcs :
        (call[p].pc # "idle" /\ call[p].status \in Statuses \ {"published"}) =>
            /\ call[p].pc = "done"
            /\ call[p].outcome = "forbidden"
            /\ ~call[p].qread
            /\ call[p].inspected = 0
            /\ ~call[p].invoked
            /\ call[p].writes = 0
            /\ call[p].txResponses = {} /\ call[p].txAnswers = {}

\* C6 witness: a submission to a closed form was rejected
C6_Witness ==
    \E p \in AllProcs :
        call[p].outcome = "forbidden" /\ call[p].status = "closed"

\* C7: for a required question every empty raw value ('', null, undefined,
\* []) fails validation with the reason 'required'
C7_RequiredEmptyFails ==
    (/\ val.pc \in {"validated", "revalidated"}
     /\ val.question.is_required
     /\ val.value \in {Str(<<>>), Null, Undef, Arr(<<>>)})
    => val.r1 = Invalid("required")

\* C8 as claimed: the answers handed to createWithAnswers hold no row with an
\* empty value for an optional question
C8_NoEmptyOptionalRow ==
    \A p \in AllProcs :
        call[p].invoked =>
            \A k \in 1..Len(call[p].validated) :
                ~(/\ ~GetQuestion(call[p].qs, call[p].validated[k].question_id).is_required
                  /\ IsEmptyValue(call[p].validated[k].value))

\* C8 amended: when submitResponse accepts, every raw answer yields one row
\* handed to createWithAnswers, in input order; a blank answer (undefined,
\* null, '') to an optional question is handed over as '' or, for a
\* checkbox, as []
C8_EveryAnswerHandedOver ==
    \A p \in AllProcs :
        call[p].invoked =>
            /\ Len(call[p].validated) = Len(call[p].args)
            /\ \A k \in 1..Len(call[p].args) :
                LET q == GetQuestion(call[p].qs, call[p].args[k].question_id)
                IN /\ call[p].validated[k].question_id = call[p].args[k].question_id
                   /\ (~q.is_required /\ IsBlank(call[p].args[k].value)) =>
                        call[p].validated[k].value =
                            (IF q.type = "checkbox" THEN Arr(<<>>) ELSE Str(<<>>))

\* C8 witness: a blank answer to an optional checkbox question is committed
\* as a row with value []
C8_Witness ==
    \E p \in AllProcs :
        /\ call[p].outcome = "created"
        /\ \E k \in 1..Len(call[p].args) :
            /\ IsBlank(call[p].args[k].value)
            /\ \E a \in answers :
                /\ a.response_id = call[p].rid
                /\ a.question_id = call[p].args[k].question_id
                /\ a.value = Arr(<<>>)

\* a raw answer that the loop rejects, stated without the loop
BadAnswer(qs, args, i) ==
    \/ args[i].question_id = NoQuestionId
    \/ ~HasQuestion(qs, args[i].question_id)
    \/ \E j \in 1..(i - 1) : args[j].question_id = args[i].question_id
    \/ ~validateAnswerValue(GetQuestion(qs, args[i].question_id), args[i].value).valid

Unanswered(args, q) ==
    q.is_required /\ ~\E i \in 1..Len(args) : args[i].question_id = q.id

\* C9: the error list holds one entry for every raw answer with a structural
\* or value error and one for every required question without an answer,
\* and nothing else
C9_AllErrorsCollected ==
    \A p \in AllProcs :
        Validated(p) =>
            LET c == call[p]
                bad == {i \in 1..Len(c.args) : BadAnswer(c.qs, c.args, i)}
                missing == {i \in 1..Len(c.qs) : Unanswered(c.args, c.qs[i])}
            IN /\ \A i \in 1..Len(c.args) :
                    Cardinality({k \in 1..Len(c.errors) : c.errors[k].index = i - 1})
                        = (IF i \in bad THEN 1 ELSE 0)
               /\ \A i \in 1..Len(c.qs) :
                    Cardinality({k \in 1..Len(c.errors) :
                        /\ c.errors[k].field = "required"
                        /\ c.errors[k].question_id = c.qs[i].id})
                        = (IF i \in missing THEN 1 ELSE 0)
               /\ Len(c.errors) = Cardinality(bad) + Cardinality(missing)

\* C9 witness: one rejection reports a value error on one question and a
\* missing required answer on another
C9_Witness ==
    \E p \in AllProcs :
        \E j, k \in 1..Len(call[p].errors) :
            /\ call[p].errors[j].field = "value"
            /\ call[p].errors[k].field = "required"
            /\ call[p].errors[j].question_id # call[p].errors[k].question_id

\* C10: validating the normalized value of a successful validation succeeds
\* again and returns the same value
C10_NormalizationFixedPoint ==
    val.pc = "revalidated" =>
        (val.r2.valid /\ val.r2.normalizedValue = val.r1.normalizedValue)

(***************************************************************************)
(* Properties of the aggregation (SpecA).                                  *)
(***************************************************************************)
Aggregated == agg.pc = "aggregated"

RECURSIVE AllAnswers(_, _)
\* the answers of a list of submissions, in order
AllAnswers(submissions, i) ==
    IF i > Len(submissions) THEN <<>>
    ELSE submissions[i].answers \o AllAnswers(submissions, i + 1)

\* the answers given to one question
AnswersTo(qid) ==
    SelectSeq(AllAnswers(agg.submissions, 1), LAMBDA a : a.question_id = qid)

\* the submissions that hold an answer to the question
SubmissionsAnswering(qid) ==
    {k \in 1..Len(agg.submissions) :
        \E j \in 1..Len(agg.submissions[k].answers) :
            agg.submissions[k].answers[j].question_id = qid}

RECURSIVE SumCounts(_, _)
SumCounts(obj, i) ==
    IF i > Len(obj) THEN 0 ELSE obj[i].count + SumCounts(obj, i + 1)

\* the number of values an answer selects: the elements of a checkbox
\* array, one for a single selection (the empty string included)
Selections(type, v) ==
    IF type = "checkbox" /\ v.t = "array" THEN Len(v.a) ELSE 1

RECURSIVE SumSelections(_, _, _)
SumSelections(as, j, type) ==
    IF j > Len(as) THEN 0
    ELSE Selections(type, as[j].value) + SumSelections(as, j + 1, type)

TokenStarts(s) ==
    {i \in 1..Len(s) : ~IsSpace(s[i]) /\ (i = 1 \/ IsSpace(s[i - 1]))}

TokenAt(s, i) ==
    LET j == CHOOSE e \in i..Len(s) :
                /\ \A k \in i..e : ~IsSpace(s[k])
                /\ (e = Len(s) \/ IsSpace(s[e + 1]))
    IN LowerCase(SubSeq(s, i, j))

\* the occurrences of a word in the answers
TokenCount(as, w) ==
    Cardinality({p \in UNION {{<<j, i>> : i \in TokenStarts(as[j].value.s)} :
                                  j \in 1..Len(as)} :
                    TokenAt(as[p[1]].value.s, p[2]) = w})

HasStoredResponse(formId) == \E r \in responses : r.form_id = formId

\* the row of the question a question service call is about, as it was read
ExistingQuestion(p) == CHOOSE q \in call[p].existing : TRUE

\* updateQuestion calls that have read their question and ended
UpdateEnded(p) ==
    /\ call[p].op = "updateQuestion"
    /\ call[p].pc = "done"
    /\ call[p].existing # NoRows

\* the update asks for another type, or for an options list that lacks an
\* option of the question
AsksTypeChange(p) ==
    call[p].updates.type # "-" /\ call[p].updates.type # ExistingQuestion(p).type
AsksOptionRemoval(p) ==
    /\ call[p].updates.options.given
    /\ \E o \in OptionSet(ExistingQuestion(p)) :
            \A i \in 1..Len(call[p].updates.options.v) : call[p].updates.options.v[i] # o

\* a step of an updateQuestion call keeps the type and every option of the
\* questions in qs
KeepsTypeAndOptions(qs) ==
    \A p \in procs : call[p].op = "updateQuestion" =>
        \A q \in qs : \E q2 \in questions' :
            /\ q2.id = q.id
            /\ q2.type = q.type
            /\ OptionSet(q) \subseteq OptionSet(q2)

C15_FrozenStep ==
    KeepsTypeAndOptions({q \in questions :
        HasStoredResponse(q.form_id) /\ q.type \in ChoiceTypes})

C15_Outcomes ==
    \A p \in procs : UpdateEnded(p) /\ HasStoredResponse(call[p].formId) =>
        LET q == ExistingQuestion(p)
            u == call[p].updates
        IN \* a type change, and an option removal on a choice question, fail
           \* with a conflict and leave the row as it was
           /\ (AsksTypeChange(p) \/ (q.type \in ChoiceTypes /\ AsksOptionRemoval(p))) =>
                 call[p].outcome = "conflict" /\ q \in questions
           \* a new title and a new required flag are written
           /\ (u.type = "-" /\ ~u.options.given) =>
                 /\ call[p].outcome = "updated"
                 /\ [q EXCEPT !.title = IF u.title.given THEN u.title.v ELSE @,
                              !.is_required = IF u.is_required.given
                                              THEN u.is_required.v ELSE @]
                        \in questions
           \* a valid options list that keeps every option is written
           /\ (/\ u.type = "-" /\ u.options.given /\ ~AsksOptionRemoval(p)
               /\ OptionsValid(q.type, Options(u.options.v))) =>
                 /\ call[p].outcome = "updated"
                 /\ [q EXCEPT !.options = Options(u.options.v)] \in questions

C15_AppendWitness ==
    \E p \in procs :
        /\ UpdateEnded(p)
        /\ HasStoredResponse(call[p].formId)
        /\ call[p].updates.options.given
        /\ ~AsksOptionRemoval(p)
        /\ Len(call[p].updates.options.v) > Len(ExistingQuestion(p).options.items)
        /\ call[p].outcome = "updated"

\* deleteQuestion calls that have ended
DeleteQuestionEnded(p) == call[p].op = "deleteQuestion" /\ call[p].pc = "done"

C16_Outcome ==
    \A p \in procs : DeleteQuestionEnded(p) /\ HasStoredResponse(call[p].formId) =>
        /\ call[p].outcome \in {"conflict", "forbidden", "not_found"}
        \* the owner's call on a question of the form ends with the conflict
        /\ call[p].existing # NoRows =>
              call[p].outcome = "conflict" /\ call[p].existing \subseteq questions

C16_Step ==
    \A p \in procs :
        call[p].op = "deleteQuestion" /\ HasStoredResponse(call[p].formId) =>
            UNCHANGED <<questions, answers>>

\* C16: a deleteQuestion call on a form with a stored response fails, the
\* call of the owner on a question of the form with a conflict (409), and no
\* step of it removes a question or an answer row
C16_DeleteQuestionRefused == []C16_Outcome /\ [][C16_Step]_vars

\* the owner's deleteQuestion on an answered question has ended with a
\* conflict
C16_Witness ==
    \E p \in procs :
        /\ DeleteQuestionEnded(p)
        /\ HasStoredResponse(call[p].formId)
        /\ call[p].outcome = "conflict"
        /\ \E a \in answers : a.question_id = call[p].questionId

\* deleteResponse calls that have ended
DeleteResponseEnded(p) == call[p].op = "deleteResponse" /\ call[p].pc = "done"

\* the caller owns the form named in the call
CallerOwnsForm(p) ==
    /\ call[p].formId \in DOMAIN forms
    /\ forms[call[p].formId].user_id = call[p].userId

\* a step of a deleteResponse call that changes the stored responses or
\* answers is made for the owner of the form, on a response of that form, and
\* removes that response and its answers only
C17_RemovalStep ==
    \A p \in procs :
        call[p].op = "deleteResponse" /\ <<responses, answers>>' # <<responses, answers>> =>
            /\ CallerOwnsForm(p)
            /\ \E r \in responses : r.id = call[p].responseId /\ r.form_id = call[p].formId
            /\ responses' = {r \in responses : r.id # call[p].responseId}
            /\ answers' = {a \in answers : a.response_id # call[p].responseId}

\* no step changes the content of a stored row
C17_NoUpdateStep ==
    /\ \A r \in responses : \A r2 \in responses' : r2.id = r.id => r2 = r
    /\ \A a \in answers : \A a2 \in answers' : a2.id = a.id => a2 = a

C17_Outcome ==
    \A p \in procs : DeleteResponseEnded(p) =>
        /\ ~CallerOwnsForm(p) =>
              /\ call[p].outcome \in {"forbidden", "not_found"}
              /\ call[p].found = NoRows
        /\ (\E r \in call[p].found : r.form_id # call[p].formId) =>
              call[p].outcome = "not_found" /\ call[p].found \subseteq responses
        /\ call[p].outcome = "deleted" =>
              /\ CallerOwnsForm(p)
              /\ call[p].found # NoRows
              /\ \A r \in call[p].found : r.form_id = call[p].formId /\ r \notin responses
              /\ \A a \in answers : a.response_id # call[p].responseId

\* C17: deleteResponse removes a stored response only for the owner of the
\* form named in the call and only when the response is of that form; every
\* other call fails and leaves the response and its answers as they were; no
\* step of any operation changes the content of a stored response or answer
C17_DeleteByOwnerOnly == []C17_Outcome /\ [][C17_RemovalStep /\ C17_NoUpdateStep]_vars

\* the owner has deleted a response of the form while another response stays
C17_Witness ==
    \E p \in procs :
        /\ DeleteResponseEnded(p)
        /\ call[p].outcome = "deleted"
        /\ call[p].found # NoRows
        /\ responses # {}

\* a caller who does not own the form was refused and the response is stored
C17_RefusedWitness ==
    \E p \in procs :
        /\ DeleteResponseEnded(p)
        /\ call[p].outcome = "forbidden"
        /\ \E r \in responses : r.id = call[p].responseId /\ r.form_id = call[p].formId

\* the question is one of the form
QuestionOfForm(qid, formId) == \E q \in questions : q.id = qid /\ q.form_id = formId

C18_StoredAnswers ==
    \A a \in answers : \E r \in responses :
        r.id = a.response_id /\ QuestionOfForm(a.question_id, r.form_id)

C18_ForeignRejected ==
    \A p \in procs : call[p].op = "submitResponse" /\ Validated(p) =>
        \A i \in 1..Len(call[p].args) :
            ~QuestionOfForm(call[p].args[i].question_id, call[p].formId) =>
                /\ call[p].pc = "done"
                /\ call[p].outcome = "validation_failed"
                /\ \E k \in 1..Len(call[p].errors) :
                        /\ call[p].errors[k].index = i - 1
                        /\ call[p].errors[k].field = "question_id"
                /\ call[p].writes = 0

\* C18: every stored answer belongs to a stored response and references a
\* question of the form of that response, whatever submitResponse,
\* updateQuestion, deleteQuestion, reorderQuestions and deleteResponse calls
\* came before; a submission with an answer whose question_id is not a
\* question of the target form ends with a validation failure that names the
\* answer and writes nothing
C18_AnswersWithinForm == C18_StoredAnswers /\ C18_ForeignRejected

\* answers are stored for responses of two forms after a reorder of the
\* questions of one of them
C18_Witness ==
    /\ \E a \in answers, r \in responses : r.id = a.response_id /\ r.form_id = "f1"
    /\ \E a \in answers, r \in responses : r.id = a.response_id /\ r.form_id = "f2"
    /\ \E q \in questions : q.id = "q1" /\ q.order_index = 1

\* a submission that answers a question of another form was rejected
C18_RejectedWitness ==
    \E p \in procs :
        /\ call[p].op = "submitResponse" /\ Validated(p)
        /\ call[p].outcome = "validation_failed"
        /\ \E i \in 1..Len(call[p].args) :
                /\ \E q \in questions : q.id = call[p].args[i].question_id
                /\ ~QuestionOfForm(call[p].args[i].question_id, call[p].formId)

\* validateAnswerValue has been applied to an array for a checkbox question
CheckboxValidated ==
    /\ val.pc # "off" /\ val.pc # "start"
    /\ val.question.type = "checkbox"
    /\ val.value.t = "array"

\* the array holds the same element at two positions
HasRepeatedElement(a) == \E i, j \in 1..Len(a) : i < j /\ a[i] = a[j]

\* C19: for a checkbox question an array that holds the same element twice
\* is rejected, with the duplicate-selection error when its elements are
\* options of the question, and an accepted array is the normalized value
\* with the same elements in the same order
C19_DuplicatesRejected ==
    CheckboxValidated =>
        /\ HasRepeatedElement(val.value.a) => ~val.r1.valid
        /\ (/\ HasRepeatedElement(val.value.a)
            /\ \A i \in 1..Len(val.value.a) :
                    /\ val.value.a[i].t = "string"
                    /\ ~NotAnOption(val.question.options, val.value.a[i].s)) =>
              val.r1.message = "duplicate_selection"
        /\ val.r1.valid =>
              /\ val.r1.normalizedValue = val.value
              /\ ~HasRepeatedElement(val.r1.normalizedValue.a)

\* an array that names one option twice was rejected as a duplicate selection
C19_Witness ==
    /\ CheckboxValidated
    /\ Len(val.value.a) = 2
    /\ val.value.a[1] = val.value.a[2]
    /\ val.r1.message = "duplicate_selection"

\* an array of two options in the reverse of their declared order was accepted
C19_AcceptedWitness ==
    /\ CheckboxValidated
    /\ val.r1.valid
    /\ Len(val.value.a) = 2
    /\ Len(val.question.options.items) = 2
    /\ val.value.a[1].s = val.question.options.items[2]
    /\ val.value.a[2].s = val.question.options.items[1]

\* submitResponse calls with an empty answers array that have read the
\* questions of a published form without required questions
EmptySubmission(p) ==
    /\ call[p].op = "submitResponse"
    /\ call[p].qread
    /\ call[p].args = <<>>
    /\ call[p].status = "published"
    /\ \A q \in questions : q.form_id = call[p].formId => ~q.is_required

\* the call passed the validation, and when it returned a response there is
\* a stored response of the form without answers
EmptyAccepted(p) ==
    /\ call[p].invoked
    /\ call[p].outcome \notin {"no_questions", "validation_failed"}
    /\ call[p].outcome = "created" =>
          /\ ResponseRow(call[p].rid, call[p].formId) \in responses
          /\ \A a \in answers : a.response_id # call[p].rid

C20_NoQuestionsWitness ==
    \E p \in procs :
        /\ EmptySubmission(p)
        /\ ~\E q \in questions : q.form_id = call[p].formId
        /\ call[p].outcome = "no_questions"

\* the client of the call was acquired from the pool
Acquired(p) == call[p].client # "none"

C21_Inv ==
    \A p \in procs : call[p].op = "submitResponse" =>
        /\ call[p].releases <= 1
        /\ call[p].client = "released" <=> call[p].releases = 1
        \* the release comes after COMMIT or after an attempted ROLLBACK
        /\ (call[p].pc = "release" \/ call[p].releases = 1) =>
              call[p].failedAt = "none" \/ call[p].rolledBack # "no"
        \* the function is left with the client released, or never acquired
        /\ call[p].pc = "done" =>
              /\ call[p].client # "held"
              /\ call[p].invoked /\ call[p].failedAt # "connect" => call[p].releases = 1
              /\ ~call[p].invoked \/ call[p].failedAt = "connect" => ~Acquired(p)

\* C21: on every path through createWithAnswers the acquired client is
\* released exactly once, after COMMIT or after an attempted ROLLBACK, the
\* function is never left with the client held, and a client that is held is
\* eventually released
C21_ClientReleasedOnce ==
    /\ []C21_Inv
    /\ \A p \in AllProcs : (call[p].client = "held") ~> (call[p].client = "released")

\* createWithAnswers was left after a failed ROLLBACK with the client released
C21_Witness ==
    \E p \in procs :
        /\ call[p].pc = "done"
        /\ call[p].rolledBack = "failed"
        /\ call[p].client = "released"
        /\ call[p].releases = 1

\* submitResponse calls that returned a response
Created(p) ==
    /\ call[p].op = "submitResponse"
    /\ call[p].pc = "done"
    /\ call[p].outcome = "created"

\* the answer rows createWithAnswers inserts for the validated answers
OwnAnswerRows(p) ==
    {AnswerRow(call[p].rid, call[p].validated[i]) : i \in 1..Len(call[p].validated)}

\* C22: of two submitResponse calls on the same published form that run at
\* the same time, each one that passed the validation ends with a response;
\* the two response ids differ, and the answer rows with the response id of
\* a call are the rows of its own validated answers, also while the other
\* call is under way
C22_ConcurrentSubmissionsIndependent ==
    /\ \A p \in procs : call[p].op = "submitResponse" /\ call[p].invoked =>
          /\ call[p].failedAt = "none"
          /\ call[p].pc = "done" => Created(p)
    /\ \A p \in procs : Created(p) =>
          /\ ResponseRow(call[p].rid, call[p].formId) \in responses
          /\ {a \in answers : a.response_id = call[p].rid} = OwnAnswerRows(p)
    /\ \A p, o \in procs :
          /\ p # o
          /\ call[p].op = "submitResponse" /\ call[p].writes > 0
          /\ call[o].op = "submitResponse" /\ call[o].writes > 0
          => /\ call[p].rid # call[o].rid
             /\ \A a \in call[o].txAnswers : a.response_id # call[p].rid

\* a call that inserted its response after the other one has returned while
\* the other one is still inserting its answers
C22_Witness ==
    \E p, o \in AllProcs :
        /\ Created(p)
        /\ call[o].pc = "insertAnswer" /\ call[o].idx = 2
        /\ call[o].rid < call[p].rid

\* C23: no step commits a response row of a form whose stored status is not
\* published at that moment, also when updateForm runs at the same time
C23_CommittedOnlyWhilePublished ==
    [][\A r \in responses' \ responses : forms'[r.form_id].status = "published"]_vars

\* C24: in no state has a stored response of a submitResponse call a
\* question that, since the call validated the response against it, changed
\* its type or lost an option, also when updateQuestion runs at the same time
C24_FreezeUnderInterleaving ==
    \A p \in procs :
        Created(p) /\ ResponseRow(call[p].rid, call[p].formId) \in responses =>
            \A i \in 1..Len(call[p].qs) : \A q \in questions :
                q.id = call[p].qs[i].id =>
                    /\ q.type = call[p].qs[i].type
                    /\ OptionSet(call[p].qs[i]) \subseteq OptionSet(q)

\* C25: in every state a committed response has an answer row for each of
\* the answers it was accepted with, also when deleteQuestion runs at the
\* same time as the submitResponse call
C25_NoPartialAnswerSet ==
    \A p \in procs :
        Created(p) /\ ResponseRow(call[p].rid, call[p].formId) \in responses =>
            \A i \in 1..Len(call[p].validated) :
                \E a \in answers :
                    /\ a.response_id = call[p].rid
                    /\ a.question_id = call[p].validated[i].question_id

\* the error entries of a call that are about a raw answer with a question_id
AnswerErrors(p) ==
    {k \in 1..Len(call[p].errors) :
        /\ call[p].errors[k].field # "required"
        /\ call[p].errors[k].message # "question_id_required"}

C26_DuplicateWitness ==
    \E p \in AllProcs : Validated(p) /\
        \E k \in AnswerErrors(p) :
            /\ call[p].errors[k].message = "duplicate_answer"
            /\ call[p].errors[k].index = 1

RECURSIVE TokenStream(_, _)
\* the tokens of the answers that are counted, in the order of the answers
TokenStream(as, i) ==
    IF i > Len(as) THEN <<>>
    ELSE Words(as[i].value) \o TokenStream(as, i + 1)

\* the position of the first occurrence of a word in the aggregated answers
FirstOccurrence(w) ==
    LET stream == TokenStream(AnswersTo("q3"), 1)
    IN CHOOSE i \in 1..Len(stream) :
            stream[i] = w /\ \A j \in 1..(i - 1) : stream[j] # w

\* C27: the word list of formatChartData is sorted by descending count, and
\* words with equal counts stand in the order of their first occurrence in
\* the aggregated answers
C27_TopWordsOrdered ==
    agg.pc = "formatted" =>
        \A i, j \in 1..Len(agg.chart) : i < j =>
            \/ agg.chart[i].value > agg.chart[j].value
            \/ /\ agg.chart[i].value = agg.chart[j].value
               /\ FirstOccurrence(agg.chart[i].name) < FirstOccurrence(agg.chart[j].name)

\* the answers to a question that are not the empty pass-through value
NonEmptyAnswersTo(qid) ==
    SelectSeq(AnswersTo(qid), LAMBDA a : ~IsEmptyValue(a.value))

\* C28: an empty answer of an optional question ('' or []) does not count:
\* totalResponses of the question is the number of its non-empty answers,
\* the distribution has no entry for the empty string and wordFrequency
\* counts the tokens of the non-empty answers
C28_EmptyAnswersNotCounted ==
    Aggregated =>
        \A i \in 1..Len(agg.questions) :
            LET q == agg.questions[i]
            IN ~q.is_required =>
                /\ agg.stats[q.id].totalResponses = Len(NonEmptyAnswersTo(q.id))
                /\ ~HasKey(agg.stats[q.id].data, <<>>)
                /\ SumCounts(agg.stats[q.id].wordFrequency.v, 1) =
                     (IF q.type = "short_answer"
                      THEN Len(TokenStream(NonEmptyAnswersTo(q.id), 1)) ELSE 0)

(***************************************************************************)
(* Properties of the stored form of a value (SpecJ).                       *)
(***************************************************************************)
\* the JSONB column holds the value that was given to JSON.stringify
ColumnHoldsValue == detail.pc \in {"stored", "returned"} => detail.column = detail.v

\* C29: the value getSubmissionDetail returns for an answer equals the
\* normalized value that was stored, also for a string that is a JSON text
C29_StorageRoundTrip ==
    detail.pc = "returned" => detail.value = detail.v

(***************************************************************************)
(* Stored values of required questions (Spec).                             *)
(***************************************************************************)
\* C30: after any sequence of accepted submissions, the value stored for a
\* required question is neither the empty string nor the empty array (the
\* questions of Spec do not change, so a question that is required in the
\* table was required when its answer was validated)
C30_RequiredNeverStoredEmpty ==
    \A a \in answers :
        \A q \in questions :
            (q.id = a.question_id /\ q.is_required) => ~IsEmptyValue(a.value)

====
